---- MODULE Spec2Model ----
(***************************************************************************)
(* Model of clive_editor: the history engine (useHistory), the table row   *)
(* and column operations (tableOps), the command layer (useEditor) over    *)
(* the editable tree, the markdown codec, the editor component (CliveEdit  *)
(* with its wysiwyg and markdown editors) and the keys of the editable     *)
(* area inside a table.                                                    *)
(*                                                                         *)
(* History: the two stacks, the debounce timer handle and the timers the   *)
(* host has scheduled, under a discrete clock.  A timer may fire at any    *)
(* time at or after its due time, as the event loop allows.                *)
(*                                                                         *)
(* Tables: one table of the editable tree, as a head section and an        *)
(* optional body section of rows of cells.  tLastOp, tCell and tRet record *)
(* the last table operation, the cell it was given and what it returned;   *)
(* tStartOK whether the table started with one header row, a body row and  *)
(* rows of one width.                                                      *)
(*                                                                         *)
(* The variables lastOp, arg, ret and pre record the last operation the    *)
(* caller (or the event loop) performed, its argument, its return value    *)
(* and the stacks it started from; burstN, burstAt, burstMd and burstApp   *)
(* follow a burst of pushState calls.  They are observations of the run,   *)
(* never read by the operations.                                           *)
(*                                                                         *)
(* Commands: the editable tree doc (elements and text nodes, addressed by  *)
(* paths), the selection sel and the active tags; cLastOp and cPre record  *)
(* the last command and the tree and selection it started from.            *)
(*                                                                         *)
(* Codec: markdown is a sequence of tokens; parseMarkdown renders it to a  *)
(* tree and serializeHtml writes a tree back, each as the library rules    *)
(* configured in markdown.ts do.                                           *)
(*                                                                         *)
(* Editor: the mode, the props the host binds (mode and modelValue with    *)
(* v-model, and disabled), the cursor of the textarea and                  *)
(* the input timer of the editable area.  One action is one event with     *)
(* everything it schedules for the next tick.  gesture, invoked, emitted   *)
(* and ePre record the last event, the operation it invoked, what it       *)
(* emitted as update:modelValue and the state it started from.             *)
(***************************************************************************)
EXTENDS Integers, Sequences, FiniteSets, TLC

VARIABLES maxDepth, undoStack, redoStack, debounceTimer, timers, now,
          lastOp, arg, ret, pre,
          burstN, burstAt, burstMd, burstApp,
          table, tLastOp, tCell, tRet, tStartOK,
          doc, sel, activeTags, ops, cLastOp, cPre,
          currentMode, mode, disabled, modelValue, selectionStart, selectionEnd,
          inputTimer, gesture, invoked, emitted, ePre,
          highlightProp, highlightTimer, structuralMds,
          pureIn, pureOut, pureOp,
          isSyncing, watching, rerendered

hvars == <<maxDepth, undoStack, redoStack, debounceTimer, timers, now,
           lastOp, arg, ret, pre, burstN, burstAt, burstMd, burstApp>>

tvars == <<table, tLastOp, tCell, tRet, tStartOK>>

cvars == <<doc, sel, activeTags, ops, cLastOp, cPre>>

evars == <<currentMode, mode, disabled, modelValue, selectionStart, selectionEnd,
           inputTimer, gesture, invoked, emitted, ePre,
           highlightProp, highlightTimer, structuralMds>>

\* the argument, the value and the name of the last pure function applied
pvars == <<pureIn, pureOut, pureOp>>

\* the composable useMarkdown: its guard flag, whether its watcher is queued,
\* whether the watcher has replaced the tree
uvars == <<isSyncing, watching, rerendered>>

vars == <<hvars, tvars, cvars, evars, pvars, uvars>>

(* ------------------------------ bounds --------------------------------- *)

\* largest configured maxDepth explored (the option maxDepth, 1 and up)
MaxDepthCfg == 3
\* the debounce interval, in clock ticks (the option debounceMs, scaled)
DebounceMs == 2
\* the clock stops here
MaxTime == 3
\* rows of the body section, and cells of a row, of the tables explored
MaxBodyRows == 2
MaxCols == 2
\* commands run on a document before the exploration stops
MaxOps == 1
\* characters of the info string of a fence
MaxInfo == 2
MaxEvents == 2
\* list commands in a sequence
MaxListOps == 2
MaxLang == 3

Markdown == {"X", "Y"}

\* null, as a markdown argument, as a history entry and as a timer handle
NULL == "null"
NullEntry == [markdown |-> NULL, timestamp |-> -1]
NullTimer == [due |-> -1, markdown |-> NULL]

Min(a, b) == IF a < b THEN a ELSE b

(* ------------------------------ history -------------------------------- *)

HistoryEntry(markdown, t) == [markdown |-> markdown, timestamp |-> t]

\* a canUndo that accepts a one-entry stack
canUndoOffByOne(u) == Len(u) > 0

canUndo(u) == Len(u) > 1
canRedo(r) == Len(r) > 0

\* Array.prototype.splice(0, n): drop the first n elements (n <= 0 drops none)
SpliceFront(s, n) == IF n <= 0 THEN s ELSE SubSeq(s, Min(n, Len(s)) + 1, Len(s))

\* setTimeout(fn, ms): the handle is the scheduled timer itself
SetTimeout(ts, markdown, t) == [due |-> t + DebounceMs, markdown |-> markdown]

\* if (debounceTimer) clearTimeout(debounceTimer)
ClearDebounce(ts, h) == IF h # NullTimer THEN ts \ {h} ELSE ts

Top(u) == u[Len(u)]

\* _push that never trims
pushNoTrim(u, r, md, markdown, t) ==
    IF Len(u) > 0 /\ Top(u).markdown = markdown
    THEN [undoStack |-> u, redoStack |-> r]
    ELSE [undoStack |-> Append(u, HistoryEntry(markdown, t)), redoStack |-> << >>]

\* _push that keeps the redo stack
pushKeepRedo(u, r, md, markdown, t) ==
    IF Len(u) > 0 /\ Top(u).markdown = markdown
    THEN [undoStack |-> u, redoStack |-> r]
    ELSE LET pushed == Append(u, HistoryEntry(markdown, t))
         IN  [undoStack |-> IF Len(pushed) > md
                            THEN SpliceFront(pushed, Len(pushed) - md)
                            ELSE pushed,
              redoStack |-> r]

\* _push that clears the redo stack before comparing with the top
pushClearFirst(u, r, md, markdown, t) ==
    IF Len(u) > 0 /\ Top(u).markdown = markdown
    THEN [undoStack |-> u, redoStack |-> << >>]
    ELSE LET pushed == Append(u, HistoryEntry(markdown, t))
         IN  [undoStack |-> IF Len(pushed) > md
                            THEN SpliceFront(pushed, Len(pushed) - md)
                            ELSE pushed,
              redoStack |-> << >>]

_push(u, r, md, markdown, t) ==
    IF Len(u) > 0 /\ Top(u).markdown = markdown
    THEN [undoStack |-> u, redoStack |-> r]
    ELSE LET pushed == Append(u, HistoryEntry(markdown, t))
         IN  [undoStack |-> IF Len(pushed) > md
                            THEN SpliceFront(pushed, Len(pushed) - md)
                            ELSE pushed,
              redoStack |-> << >>]

\* an undo that copies the top entry to the redo stack and leaves it
undoKeepTop(u, r) ==
    IF ~canUndo(u)
    THEN [undoStack |-> u, redoStack |-> r, ret |-> NullEntry]
    ELSE [undoStack |-> u, redoStack |-> Append(r, u[Len(u)]), ret |-> u[Len(u) - 1]]

undo(u, r) ==
    IF ~canUndo(u)
    THEN [undoStack |-> u, redoStack |-> r, ret |-> NullEntry]
    ELSE LET popped == SubSeq(u, 1, Len(u) - 1)
         IN  [undoStack |-> popped,
              redoStack |-> Append(r, u[Len(u)]),
              ret |-> IF Len(popped) > 0 THEN popped[Len(popped)] ELSE NullEntry]

\* a redo that leaves the entry on the redo stack
redoNoPop(u, r) ==
    IF ~canRedo(r)
    THEN [undoStack |-> u, redoStack |-> r, ret |-> NullEntry]
    ELSE [undoStack |-> Append(u, r[Len(r)]), redoStack |-> r, ret |-> r[Len(r)]]

redo(u, r) ==
    IF ~canRedo(r)
    THEN [undoStack |-> u, redoStack |-> r, ret |-> NullEntry]
    ELSE [undoStack |-> Append(u, r[Len(r)]),
          redoStack |-> SubSeq(r, 1, Len(r) - 1),
          ret |-> r[Len(r)]]

\* pushState that forgets to cancel the pending timer
pushStateNoCancel(ts, h, markdown, t) == ts \cup {SetTimeout(ts, markdown, t)}

\* timers after pushState(markdown): the pending one is cancelled, a new one set
pushStateTimers(ts, h, markdown, t) ==
    ClearDebounce(ts, h) \cup {SetTimeout(ts, markdown, t)}

\* pushImmediate that forgets to cancel the pending timer
pushImmediateNoCancel(ts, h) == ts

\* timers after pushImmediate / clear
pushImmediateTimers(ts, h) == ClearDebounce(ts, h)
clearTimers(ts, h) == ClearDebounce(ts, h)

\* the markdown differs from the top entry's (or there is no top entry)
Differs(u, markdown) == Len(u) = 0 \/ Top(u).markdown # markdown

Snapshot == [undoStack |-> undoStack, redoStack |-> redoStack, lastOp |-> lastOp]

EndBurst == /\ burstN' = 0
            /\ burstAt' = 0
            /\ burstMd' = NULL
            /\ burstApp' = 0

pushState(markdown) ==
    /\ timers' = pushStateTimers(timers, debounceTimer, markdown, now)
    /\ debounceTimer' = SetTimeout(timers, markdown, now)
    /\ lastOp' = "pushState"
    /\ arg' = markdown
    /\ ret' = NullEntry
    /\ pre' = Snapshot
    /\ IF burstN > 0 /\ now - burstAt < DebounceMs
       THEN burstN' = Min(burstN + 1, 2) /\ burstApp' = burstApp
       ELSE burstN' = 1 /\ burstApp' = 0
    /\ burstAt' = now
    /\ burstMd' = markdown
    /\ UNCHANGED <<maxDepth, undoStack, redoStack, now>>
    /\ UNCHANGED <<tvars, cvars, evars, pvars, uvars>>

pushImmediate(markdown) ==
    LET p == _push(undoStack, redoStack, maxDepth, markdown, now)
    IN  /\ timers' = pushImmediateTimers(timers, debounceTimer)
        /\ undoStack' = p.undoStack
        /\ redoStack' = p.redoStack
        /\ lastOp' = "pushImmediate"
        /\ arg' = markdown
        /\ ret' = NullEntry
        /\ pre' = Snapshot
        /\ EndBurst
        /\ UNCHANGED <<maxDepth, debounceTimer, now>>
        /\ UNCHANGED <<tvars, cvars, evars, pvars, uvars>>

\* the callback of a timer set by pushState runs: _push(markdown)
TimerFire(tm) ==
    /\ tm \in timers
    /\ now >= tm.due
    /\ LET p == _push(undoStack, redoStack, maxDepth, tm.markdown, now)
       IN  /\ undoStack' = p.undoStack
           /\ redoStack' = p.redoStack
           /\ burstApp' = IF burstN > 0 /\ Differs(undoStack, tm.markdown)
                          THEN Min(burstApp + 1, 2)
                          ELSE burstApp
    /\ timers' = timers \ {tm}
    /\ lastOp' = "fire"
    /\ arg' = tm.markdown
    /\ ret' = NullEntry
    /\ pre' = Snapshot
    /\ UNCHANGED <<maxDepth, debounceTimer, now, burstN, burstAt, burstMd>>
    /\ UNCHANGED <<tvars, cvars, evars, pvars, uvars>>

Undo ==
    LET p == undo(undoStack, redoStack)
    IN  /\ undoStack' = p.undoStack
        /\ redoStack' = p.redoStack
        /\ ret' = p.ret
        /\ lastOp' = "undo"
        /\ arg' = NULL
        /\ pre' = Snapshot
        /\ EndBurst
        /\ UNCHANGED <<maxDepth, debounceTimer, timers, now>>
        /\ UNCHANGED <<tvars, cvars, evars, pvars, uvars>>

Redo ==
    LET p == redo(undoStack, redoStack)
    IN  /\ undoStack' = p.undoStack
        /\ redoStack' = p.redoStack
        /\ ret' = p.ret
        /\ lastOp' = "redo"
        /\ arg' = NULL
        /\ pre' = Snapshot
        /\ EndBurst
        /\ UNCHANGED <<maxDepth, debounceTimer, timers, now>>
        /\ UNCHANGED <<tvars, cvars, evars, pvars, uvars>>

init(markdown) ==
    /\ undoStack' = <<HistoryEntry(markdown, now)>>
    /\ redoStack' = << >>
    /\ lastOp' = "init"
    /\ arg' = markdown
    /\ ret' = NullEntry
    /\ pre' = Snapshot
    /\ EndBurst
    /\ UNCHANGED <<maxDepth, debounceTimer, timers, now>>
    /\ UNCHANGED <<tvars, cvars, evars, pvars, uvars>>

clear ==
    /\ undoStack' = << >>
    /\ redoStack' = << >>
    /\ timers' = clearTimers(timers, debounceTimer)
    /\ lastOp' = "clear"
    /\ arg' = NULL
    /\ ret' = NullEntry
    /\ pre' = Snapshot
    /\ EndBurst
    /\ UNCHANGED <<maxDepth, debounceTimer, now>>
    /\ UNCHANGED <<tvars, cvars, evars, pvars, uvars>>

\* the clock advances (Date.now() and the timers' clock)
Tick ==
    /\ now < MaxTime
    /\ now' = now + 1
    /\ UNCHANGED <<maxDepth, undoStack, redoStack, debounceTimer, timers,
                   lastOp, arg, ret, pre, burstN, burstAt, burstMd, burstApp>>
    /\ UNCHANGED <<tvars, cvars, evars, pvars, uvars>>

\* the history engine as constructed with the given maxDepth option
NewHistory(md) ==
    /\ maxDepth = md
    /\ undoStack = << >>
    /\ redoStack = << >>
    /\ debounceTimer = NullTimer
    /\ timers = {}
    /\ now = 0
    /\ lastOp = "new"
    /\ arg = NULL
    /\ ret = NullEntry
    /\ pre = [undoStack |-> << >>, redoStack |-> << >>, lastOp |-> "new"]
    /\ burstN = 0
    /\ burstAt = 0
    /\ burstMd = NULL
    /\ burstApp = 0

HistoryNext ==
    \/ \E m \in Markdown : pushState(m)
    \/ \E m \in Markdown : pushImmediate(m)
    \/ \E tm \in timers : TimerFire(tm)
    \/ Undo
    \/ Redo
    \/ \E m \in Markdown : init(m)
    \/ clear
    \/ Tick

(* ------------------------------- tables -------------------------------- *)

InsertAt(s, i, e) == SubSeq(s, 1, i - 1) \o <<e>> \o SubSeq(s, i, Len(s))
RemoveAt(s, i) == SubSeq(s, 1, i - 1) \o SubSeq(s, i + 1, Len(s))

\* a cell: its tag and its content
Cell(tag, text) == [tag |-> tag, text |-> text]

\* a cell of the table, by the section and row that hold it and its index in
\* the row (from 0, as row.cells is indexed); Detached is a cell in no row
CellAt(sec, row, col) == [sec |-> sec, row |-> row, col |-> col]
Detached == CellAt("none", 0, 0)

Rows(t, sec) == IF sec = "THEAD" THEN t.head ELSE t.body

\* cell is a cell of table t: cell.closest('tr') and cell.closest('table')
\* find its row and the table
InTable(t, cell) ==
    /\ cell.sec \in {"THEAD", "TBODY"}
    /\ cell.row \in 1..Len(Rows(t, cell.sec))
    /\ cell.col \in 0..(Len(Rows(t, cell.sec)[cell.row]) - 1)

\* table.querySelectorAll('tr'): the rows in document order
AllRows(t) == t.head \o t.body

getCellIndex(cell) == cell.col

getColumnCount(t) == IF Len(AllRows(t)) > 0 THEN Len(AllRows(t)[1]) ELSE 0

createDataRow(colCount) == [i \in 1..colCount |-> Cell("td", "&nbsp;")]

\* tbody.insertBefore(newRow, tbody.firstChild), the tbody created when absent
InsertFirstInBody(t, newRow) ==
    [t EXCEPT !.hasBody = TRUE, !.body = InsertAt(t.body, 1, newRow)]

\* an addRowAbove that treats the header row like any other row
addRowAboveInPlace(t, cell) ==
    IF ~InTable(t, cell)
    THEN [table |-> t, ret |-> "null"]
    ELSE LET newRow == createDataRow(getColumnCount(t))
         IN  [table |-> IF cell.sec = "THEAD"
                        THEN [t EXCEPT !.head = InsertAt(t.head, cell.row, newRow)]
                        ELSE [t EXCEPT !.body = InsertAt(t.body, cell.row, newRow)],
              ret |-> "row"]

addRowAbove(t, cell) ==
    IF ~InTable(t, cell)
    THEN [table |-> t, ret |-> "null"]
    ELSE LET newRow == createDataRow(getColumnCount(t))
         IN  [table |-> IF cell.sec = "THEAD"
                        THEN InsertFirstInBody(t, newRow)
                        ELSE [t EXCEPT !.body = InsertAt(t.body, cell.row, newRow)],
              ret |-> "row"]

addRowBelow(t, cell) ==
    IF ~InTable(t, cell)
    THEN [table |-> t, ret |-> "null"]
    ELSE LET newRow == createDataRow(getColumnCount(t))
         IN  [table |-> IF cell.sec = "THEAD"
                        THEN InsertFirstInBody(t, newRow)
                        ELSE [t EXCEPT !.body = InsertAt(t.body, cell.row + 1, newRow)],
              ret |-> "row"]

\* a removeRow that only refuses once the body is empty
removeRowOffByOne(t, cell) ==
    IF ~InTable(t, cell) THEN [table |-> t, ret |-> "false"]
    ELSE IF cell.sec = "THEAD" THEN [table |-> t, ret |-> "false"]
    ELSE IF t.hasBody /\ Len(t.body) < 1 THEN [table |-> t, ret |-> "false"]
    ELSE [table |-> [t EXCEPT !.body = RemoveAt(t.body, cell.row)], ret |-> "true"]

removeRow(t, cell) ==
    IF ~InTable(t, cell) THEN [table |-> t, ret |-> "false"]
    ELSE IF cell.sec = "THEAD" THEN [table |-> t, ret |-> "false"]
    ELSE IF t.hasBody /\ Len(t.body) <= 1 THEN [table |-> t, ret |-> "false"]
    ELSE [table |-> [t EXCEPT !.body = RemoveAt(t.body, cell.row)], ret |-> "true"]

\* one row after insertColumnAt: the new cell appended when colIdx is at or
\* past the row's end, else inserted before cells[colIdx]
InsertCell(row, colIdx, isHeader) ==
    LET newCell == IF isHeader THEN Cell("th", "Header") ELSE Cell("td", "&nbsp;")
    IN  IF colIdx >= Len(row)
        THEN Append(row, newCell)
        ELSE InsertAt(row, colIdx + 1, newCell)

insertColumnAt(t, colIdx) ==
    [t EXCEPT !.head = [i \in 1..Len(t.head) |-> InsertCell(t.head[i], colIdx, TRUE)],
              !.body = [i \in 1..Len(t.body) |-> InsertCell(t.body[i], colIdx, FALSE)]]

addColumnLeft(t, cell) ==
    IF ~InTable(t, cell)
    THEN [table |-> t, ret |-> "void"]
    ELSE [table |-> insertColumnAt(t, getCellIndex(cell)), ret |-> "void"]

addColumnRight(t, cell) ==
    IF ~InTable(t, cell)
    THEN [table |-> t, ret |-> "void"]
    ELSE [table |-> insertColumnAt(t, getCellIndex(cell) + 1), ret |-> "void"]

\* one row after removeColumn: cells[colIdx] removed when there is one
RemoveCell(row, colIdx) ==
    IF colIdx < Len(row) THEN RemoveAt(row, colIdx + 1) ELSE row

\* a removeColumn that removes the cell of the target's own row only
removeColumnOwnRow(t, cell) ==
    IF ~InTable(t, cell) THEN [table |-> t, ret |-> "false"]
    ELSE IF getColumnCount(t) <= 1 THEN [table |-> t, ret |-> "false"]
    ELSE [table |-> IF cell.sec = "THEAD"
                    THEN [t EXCEPT !.head[cell.row] = RemoveCell(@, getCellIndex(cell))]
                    ELSE [t EXCEPT !.body[cell.row] = RemoveCell(@, getCellIndex(cell))],
          ret |-> "true"]

removeColumn(t, cell) ==
    IF ~InTable(t, cell) THEN [table |-> t, ret |-> "false"]
    ELSE IF getColumnCount(t) <= 1 THEN [table |-> t, ret |-> "false"]
    ELSE LET colIdx == getCellIndex(cell)
         IN  [table |-> [t EXCEPT
                  !.head = [i \in 1..Len(t.head) |-> RemoveCell(t.head[i], colIdx)],
                  !.body = [i \in 1..Len(t.body) |-> RemoveCell(t.body[i], colIdx)]],
              ret |-> "true"]

\* the "remove row" control is enabled: the active cell lies in a table, its
\* row is not a header row and the table's tbody holds more than one row; a
\* table with no tbody leaves the control disabled
canRemoveRow(t, cell) ==
    IF ~InTable(t, cell) THEN FALSE
    ELSE IF cell.sec = "THEAD" THEN FALSE
    ELSE IF t.hasBody THEN Len(t.body) > 1 ELSE FALSE

\* the "remove column" control is enabled: the active cell lies in a table
\* whose first row has more than one cell
canRemoveColumn(t, cell) ==
    IF ~InTable(t, cell) THEN FALSE
    ELSE getColumnCount(t) > 1

\* the cells the caller may pass: any cell of the table, or a detached one
Targets(t) ==
    UNION {{CellAt("THEAD", i, j) : j \in 0..(Len(t.head[i]) - 1)} : i \in 1..Len(t.head)}
        \cup UNION {{CellAt("TBODY", i, j) : j \in 0..(Len(t.body[i]) - 1)} : i \in 1..Len(t.body)}
        \cup {Detached}

Widest(t) ==
    LET ws == {Len(AllRows(t)[i]) : i \in 1..Len(AllRows(t))}
    IN  IF ws = {} THEN 0 ELSE CHOOSE w \in ws : \A v \in ws : v <= w

TableOp(name, cell, result) ==
    /\ table' = result.table
    /\ tRet' = result.ret
    /\ tLastOp' = name
    /\ tCell' = cell
    /\ UNCHANGED <<tStartOK, hvars, cvars, evars, pvars, uvars>>

AddRowAbove ==
    \E cell \in Targets(table) :
        /\ Len(table.body) < MaxBodyRows
        /\ TableOp("addRowAbove", cell, addRowAbove(table, cell))

AddRowBelow ==
    \E cell \in Targets(table) :
        /\ Len(table.body) < MaxBodyRows
        /\ TableOp("addRowBelow", cell, addRowBelow(table, cell))

RemoveRow ==
    \E cell \in Targets(table) :
        TableOp("removeRow", cell, removeRow(table, cell))

AddColumnLeft ==
    \E cell \in Targets(table) :
        /\ Widest(table) < MaxCols
        /\ TableOp("addColumnLeft", cell, addColumnLeft(table, cell))

AddColumnRight ==
    \E cell \in Targets(table) :
        /\ Widest(table) < MaxCols
        /\ TableOp("addColumnRight", cell, addColumnRight(table, cell))

RemoveColumn ==
    \E cell \in Targets(table) :
        TableOp("removeColumn", cell, removeColumn(table, cell))

\* the text of the cells a table starts with, each its own
HeadText == <<"H1", "H2", "H3", "H4">>
BodyText == << <<"a1", "a2", "a3", "a4">>, <<"b1", "b2", "b3", "b4">>,
               <<"c1", "c2", "c3", "c4">>, <<"d1", "d2", "d3", "d4">> >>

\* a table as rendered from markdown, built by the table command or pasted:
\* one header row of hw th cells and a body section (or none) of n rows of
\* bw td cells; the header and the body rows need not have the same width
StartTable(hw, hasBody, n, bw) ==
    [head |-> << [j \in 1..hw |-> Cell("th", HeadText[j])] >>,
     hasBody |-> hasBody,
     body |-> [i \in 1..n |-> [j \in 1..bw |-> Cell("td", BodyText[i][j])]]]

Widths == 1..MaxCols


\* one header row in the head section, at least one body row, every row of
\* the same width, at least 1
WellFormed(t) ==
    /\ Len(t.head) = 1
    /\ Len(t.body) >= 1
    /\ Len(t.head[1]) >= 1
    /\ \A i \in 1..Len(t.body) : Len(t.body[i]) = Len(t.head[1])

\* the table t, no operation performed on it yet
NewTable(t) ==
    /\ table = t
    /\ tLastOp = "new"
    /\ tCell = Detached
    /\ tRet = "void"
    /\ tStartOK = WellFormed(t)

\* no table is open (the history engine runs alone)
NoTable == NewTable([head |-> << >>, hasBody |-> FALSE, body |-> << >>])

TableNext ==
    \/ AddRowAbove
    \/ AddRowBelow
    \/ RemoveRow
    \/ AddColumnLeft
    \/ AddColumnRight
    \/ RemoveColumn

(* --------------------------- editable tree ----------------------------- *)

\* A node of the editable tree: an element (tag, attributes, children) or a
\* text node (tag "#text", its characters).  A node is addressed by its
\* path, the child indices (from 1) leading to it from the editable root.
Elem(tag, kids) == [tag |-> tag, attrs |-> << >>, text |-> << >>, kids |-> kids]
ElemA(tag, attrs, kids) == [tag |-> tag, attrs |-> attrs, text |-> << >>, kids |-> kids]
Text(chars) == [tag |-> "#text", attrs |-> << >>, text |-> chars, kids |-> << >>]
IsText(n) == n.tag = "#text"
\* the contenteditable element the editor mounts
EditorEl(kids) == ElemA("DIV", << <<"contenteditable", "true">> >>, kids)

\* Node.length: characters of a text node, children of an element
NodeLength(n) == IF IsText(n) THEN Len(n.text) ELSE Len(n.kids)

\* the value of attribute name of n, NULL when it has none
getAttribute(n, name) ==
    IF \E i \in 1..Len(n.attrs) : n.attrs[i][1] = name
    THEN n.attrs[CHOOSE i \in 1..Len(n.attrs) : n.attrs[i][1] = name][2]
    ELSE NULL
\* HTMLElement.contentEditable
contentEditable(n) ==
    IF getAttribute(n, "contenteditable") = NULL THEN "inherit"
    ELSE getAttribute(n, "contenteditable")

\* no node (null), as a path
NoNode == <<0>>
Parent(p) == SubSeq(p, 1, Len(p) - 1)
Last(p) == p[Len(p)]
IsPrefix(p, q) == Len(p) <= Len(q) /\ SubSeq(q, 1, Len(p)) = p
Max(S) == CHOOSE x \in S : \A y \in S : y <= x

RECURSIVE NodeAt(_, _)
NodeAt(n, p) == IF p = << >> THEN n ELSE NodeAt(n.kids[Head(p)], Tail(p))

RECURSIVE Paths(_)
Paths(n) ==
    {<< >>} \cup UNION {{<<i>> \o p : p \in Paths(n.kids[i])} : i \in 1..Len(n.kids)}

\* the node at path p replaced by the nodes new (none, one or several)
RECURSIVE ReplaceAt(_, _, _)
ReplaceAt(n, p, new) ==
    IF Len(p) = 1
    THEN [n EXCEPT !.kids = SubSeq(@, 1, p[1] - 1) \o new \o SubSeq(@, p[1] + 1, Len(@))]
    ELSE [n EXCEPT !.kids[Head(p)] = ReplaceAt(@, Tail(p), new)]

\* the children of the node at path p replaced by kids
SetKids(n, p, kids) ==
    IF p = << >> THEN [n EXCEPT !.kids = kids]
    ELSE ReplaceAt(n, p, << [NodeAt(n, p) EXCEPT !.kids = kids] >>)

\* textContent
RECURSIVE Flatten(_)
Flatten(ss) ==
    IF ss = << >> THEN << >>
    ELSE IF Len(ss) = 1 THEN ss[1]
    ELSE Flatten(SubSeq(ss, 1, Len(ss) \div 2))
         \o Flatten(SubSeq(ss, Len(ss) \div 2 + 1, Len(ss)))
RECURSIVE textContent(_)
textContent(n) ==
    IF IsText(n) THEN n.text
    ELSE Flatten([i \in 1..Len(n.kids) |-> textContent(n.kids[i])])

(* ----------------------------- selection ------------------------------- *)

\* A boundary point: a node and an offset into it (0 .. Node.length).
\* A selection: its anchor and its focus; NoSelection when rangeCount = 0.
Point(node, offset) == [node |-> node, offset |-> offset]
NoSelection == [anchor |-> Point(NoNode, 0), focus |-> Point(NoNode, 0)]
Selection(anchor, focus) == [anchor |-> anchor, focus |-> focus]
Points(d) ==
    UNION {{Point(p, k) : k \in 0..NodeLength(NodeAt(d, p))} : p \in Paths(d)}

CommonPrefixLen(p, q) ==
    Max({k \in 0..Min(Len(p), Len(q)) : SubSeq(p, 1, k) = SubSeq(q, 1, k)})

\* a comes before b in tree order
PointBefore(a, b) ==
    LET k == CommonPrefixLen(a.node, b.node)
    IN  IF Len(a.node) = k /\ Len(b.node) = k THEN a.offset < b.offset
        ELSE IF Len(a.node) = k THEN a.offset < b.node[k + 1]
        ELSE IF Len(b.node) = k THEN a.node[k + 1] <= b.offset
        ELSE a.node[k + 1] < b.node[k + 1]

isCollapsed(s) == s.anchor = s.focus
\* Selection.getRangeAt(0): the two points in tree order
getRangeAt(s) ==
    IF PointBefore(s.focus, s.anchor)
    THEN [start |-> s.focus, end |-> s.anchor]
    ELSE [start |-> s.anchor, end |-> s.focus]
commonAncestorContainer(r) ==
    SubSeq(r.start.node, 1, CommonPrefixLen(r.start.node, r.end.node))
\* Selection.addRange of the range selecting the contents of the node at p
selectNodeContents(d, p) ==
    Selection(Point(p, 0), Point(p, NodeLength(NodeAt(d, p))))
Collapsed(pt) == Selection(pt, pt)

(* ------------------------- selection helpers --------------------------- *)

\* the paths of the descendants of the node at p, in tree order
RECURSIVE Below(_, _)
Below(n, p) ==
    Flatten([i \in 1..Len(n.kids) |-> <<p \o <<i>> >> \o Below(n.kids[i], p \o <<i>>)])
Descendants(d, p) == Below(NodeAt(d, p), p)

IsCellTag(n) == ~IsText(n) /\ n.tag \in {"TD", "TH"}
\* :last-child -- no element follows among the siblings
IsLastChild(d, p) ==
    \A j \in (Last(p) + 1)..Len(NodeAt(d, Parent(p)).kids) :
        IsText(NodeAt(d, Parent(p)).kids[j])

\* querySelector('th, td') (last = FALSE) and
\* querySelector('th:last-child, td:last-child') (last = TRUE) over the paths
\* ps: the first match in tree order, NoNode when none
RECURSIVE FirstCellIn(_, _, _)
FirstCellIn(d, ps, last) ==
    IF ps = << >> THEN NoNode
    ELSE IF IsCellTag(NodeAt(d, Head(ps))) /\ (last => IsLastChild(d, Head(ps)))
         THEN Head(ps)
    ELSE FirstCellIn(d, Tail(ps), last)

\* findAncestor(node, tagName): the nearest ancestor-or-self element of that
\* tag, looking no further than the contenteditable element
RECURSIVE findAncestor(_, _, _)
findAncestor(d, p, tag) ==
    IF p = NoNode THEN NoNode
    ELSE LET n == NodeAt(d, p)
         IN  IF ~IsText(n) /\ n.tag = tag THEN p
             ELSE IF ~IsText(n) /\ contentEditable(n) = "true" THEN NoNode
             ELSE IF p = << >> THEN NoNode
             ELSE findAncestor(d, Parent(p), tag)

\* findClosestBlock(node, boundary), boundary being the editable root
RECURSIVE findClosestBlock(_, _)
findClosestBlock(d, p) ==
    LET blockTags == {"P", "DIV", "H1", "H2", "H3", "H4", "H5", "H6",
                      "BLOCKQUOTE", "PRE", "UL", "OL", "LI"}
    IN  IF p = NoNode \/ p = << >> THEN << >>
        ELSE IF ~IsText(NodeAt(d, p)) /\ NodeAt(d, p).tag \in blockTags THEN p
        ELSE findClosestBlock(d, Parent(p))

TABLE_STRUCTURAL_TAGS == {"TR", "THEAD", "TBODY", "TFOOT", "TABLE"}
\* offset of findClosestCell when the caller passes none
Undefined == -1

\* the walk up of findClosestCell: nearest TD / TH, not past the
\* contenteditable element
RECURSIVE ClosestCellUp(_, _)
ClosestCellUp(d, p) ==
    LET n == NodeAt(d, p)
    IN  IF IsCellTag(n) THEN p
        ELSE IF ~IsText(n) /\ contentEditable(n) = "true" THEN NoNode
        ELSE IF p = << >> THEN NoNode
        ELSE ClosestCellUp(d, Parent(p))

\* a findClosestCell without its walk up the tree
findClosestCellNoWalkUp(d, p, offset) == NoNode

\* findClosestCell(node, offset?).  On a structural element with an offset
\* the child at the offset, else the one before it, decides when it is a
\* cell or a row (then the row's first, respectively last, cell).
findClosestCell(d, p, offset) ==
    LET n == NodeAt(d, p)
        structural == ~IsText(n) /\ n.tag \in TABLE_STRUCTURAL_TAGS
                      /\ offset # Undefined
        byOffset(k, last) ==
            IF k < 0 \/ k >= Len(n.kids) THEN NoNode
            ELSE IF IsCellTag(n.kids[k + 1]) THEN p \o <<k + 1>>
            ELSE IF ~IsText(n.kids[k + 1]) /\ n.kids[k + 1].tag = "TR"
                 THEN FirstCellIn(d, Descendants(d, p \o <<k + 1>>), last)
            ELSE NoNode
    IN  IF p = NoNode THEN NoNode
        ELSE IF structural /\ byOffset(offset, FALSE) # NoNode
             THEN byOffset(offset, FALSE)
        ELSE IF structural /\ offset > 0 /\ byOffset(offset - 1, TRUE) # NoNode
             THEN byOffset(offset - 1, TRUE)
        ELSE ClosestCellUp(d, p)

\* an isInsideTable that looks at the node only, and isInsideTable
isInsideTableSelfOnly(d, p) ==
    p # NoNode /\ ~IsText(NodeAt(d, p)) /\ NodeAt(d, p).tag = "TABLE"
RECURSIVE isInsideTable(_, _)
isInsideTable(d, p) ==
    IF p = NoNode THEN FALSE
    ELSE LET n == NodeAt(d, p)
         IN  IF ~IsText(n) /\ n.tag = "TABLE" THEN TRUE
             ELSE IF ~IsText(n) /\ contentEditable(n) = "true" THEN FALSE
             ELSE IF p = << >> THEN FALSE
             ELSE isInsideTable(d, Parent(p))

RECURSIVE walkUpToCell(_, _)
walkUpToCell(d, p) ==
    IF p = NoNode THEN NoNode
    ELSE LET n == NodeAt(d, p)
         IN  IF IsCellTag(n) THEN p
             ELSE IF ~IsText(n) /\ (n.tag = "TABLE" \/ contentEditable(n) = "true")
                  THEN NoNode
             ELSE IF p = << >> THEN NoNode
             ELSE walkUpToCell(d, Parent(p))

isSelectionCrossCell(d, s) ==
    IF s = NoSelection \/ isCollapsed(s) THEN FALSE
    ELSE LET range == getRangeAt(s)
             startCell == walkUpToCell(d, range.start.node)
             endCell == walkUpToCell(d, range.end.node)
         IN  IF walkUpToCell(d, commonAncestorContainer(range)) # NoNode THEN FALSE
             ELSE IF ~isInsideTable(d, commonAncestorContainer(range)) THEN FALSE
             ELSE IF startCell # NoNode /\ endCell # NoNode /\ startCell # endCell
                  THEN TRUE
             ELSE IF startCell # NoNode /\ endCell # NoNode /\ startCell = endCell
                  THEN FALSE
             ELSE IF startCell # NoNode \/ endCell # NoNode THEN FALSE
             ELSE TRUE

(* --------------------------- range mutation ---------------------------- *)

\* the node n cut down to what lies before (LeftPart) or after (RightPart)
\* the boundary point at offset off of its descendant at relative path rel;
\* the nodes on the way keep their tag and attributes, as a clone does
RECURSIVE LeftPart(_, _, _)
LeftPart(n, rel, off) ==
    IF rel = << >>
    THEN IF IsText(n) THEN [n EXCEPT !.text = SubSeq(@, 1, off)]
         ELSE [n EXCEPT !.kids = SubSeq(@, 1, off)]
    ELSE [n EXCEPT !.kids = SubSeq(@, 1, Head(rel) - 1)
                            \o <<LeftPart(n.kids[Head(rel)], Tail(rel), off)>>]
RECURSIVE RightPart(_, _, _)
RightPart(n, rel, off) ==
    IF rel = << >>
    THEN IF IsText(n) THEN [n EXCEPT !.text = SubSeq(@, off + 1, Len(@))]
         ELSE [n EXCEPT !.kids = SubSeq(@, off + 1, Len(@))]
    ELSE [n EXCEPT !.kids = <<RightPart(n.kids[Head(rel)], Tail(rel), off)>>
                            \o SubSeq(@, Head(rel) + 1, Len(@))]

\* Range.extractContents followed by Range.insertNode at the collapsed range:
\* the element that receives the inserted node (host), its children before
\* and after the insertion point, and the extracted fragment.  A partially
\* selected text node is split; a partially selected element stays in place
\* with what is left of it and a clone of it carries the extracted part.
Extract(d, r) ==
    LET c == commonAncestorContainer(r)
        cn == NodeAt(d, c)
        k == Len(c)
        sIn == Len(r.start.node) > k
        eIn == Len(r.end.node) > k
        si == IF sIn THEN r.start.node[k + 1] ELSE r.start.offset
        ei == IF eIn THEN r.end.node[k + 1] ELSE r.end.offset + 1
        srel == SubSeq(r.start.node, k + 2, Len(r.start.node))
        erel == SubSeq(r.end.node, k + 2, Len(r.end.node))
    IN  IF IsText(cn)
        THEN [host |-> Parent(c),
              before |-> SubSeq(NodeAt(d, Parent(c)).kids, 1, Last(c) - 1)
                         \o <<LeftPart(cn, << >>, r.start.offset)>>,
              frag |-> IF r.start = r.end THEN << >>
                       ELSE <<Text(SubSeq(cn.text, r.start.offset + 1, r.end.offset))>>,
              after |-> <<RightPart(cn, << >>, r.end.offset)>>
                        \o SubSeq(NodeAt(d, Parent(c)).kids, Last(c) + 1,
                                  Len(NodeAt(d, Parent(c)).kids))]
        ELSE [host |-> c,
              before |-> SubSeq(cn.kids, 1, IF sIn THEN si - 1 ELSE si)
                         \o (IF sIn THEN <<LeftPart(cn.kids[si], srel, r.start.offset)>>
                             ELSE << >>),
              frag |-> (IF sIn THEN <<RightPart(cn.kids[si], srel, r.start.offset)>>
                        ELSE << >>)
                       \o SubSeq(cn.kids, si + 1, ei - 1)
                       \o (IF eIn THEN <<LeftPart(cn.kids[ei], erel, r.end.offset)>>
                           ELSE << >>),
              after |-> (IF eIn THEN <<RightPart(cn.kids[ei], erel, r.end.offset)>>
                         ELSE << >>)
                        \o SubSeq(cn.kids, IF eIn THEN ei + 1 ELSE ei, Len(cn.kids))]

\* the tree after range.deleteContents() and the insertion of nodes there
InsertInRange(d, r, nodes) ==
    LET x == Extract(d, r) IN SetKids(d, x.host, x.before \o nodes \o x.after)

\* Where a boundary point goes when the element at path a, of n children, is
\* unwrapped (its children moved before it, then the element removed), by
\* the live-range rules of node removal and insertion.
AdjustPoint(pt, a, n) ==
    LET P == Parent(a)
        i == Last(a)
    IN  IF pt.node = NoNode THEN pt
        ELSE IF IsPrefix(a, pt.node) THEN Point(P, i - 1 + n)
        ELSE IF pt.node = P
             THEN IF pt.offset >= i THEN Point(P, pt.offset + n - 1) ELSE pt
        ELSE IF IsPrefix(P, pt.node) /\ pt.node[Len(P) + 1] > i
             THEN Point([pt.node EXCEPT ![Len(P) + 1] = @ + n - 1], pt.offset)
        ELSE pt

\* unwrapNode(node), keeping the children in place of the element at a
unwrapNodeDropsKids(d, s, a) ==
    [doc |-> ReplaceAt(d, a, << >>),
     sel |-> Selection(AdjustPoint(s.anchor, a, 0), AdjustPoint(s.focus, a, 0))]
unwrapNode(d, s, a) ==
    IF a = << >> THEN [doc |-> d, sel |-> s]
    ELSE LET n == Len(NodeAt(d, a).kids)
         IN  [doc |-> ReplaceAt(d, a, NodeAt(d, a).kids),
              sel |-> Selection(AdjustPoint(s.anchor, a, n),
                                AdjustPoint(s.focus, a, n))]

\* wrapSelection(tagName).  surroundContents and the extract / re-insert
\* fallback build the same tree; the fallback runs when the former throws
wrapSelection(d, s, tagName) ==
    IF s = NoSelection THEN [doc |-> d, sel |-> s]
    ELSE IF isSelectionCrossCell(d, s) THEN [doc |-> d, sel |-> s]
    ELSE LET range == getRangeAt(s)
             ancestor == findAncestor(d, commonAncestorContainer(range), tagName)
             x == Extract(d, range)
             wrapper == Elem(tagName, x.frag)
             wrapped == SetKids(d, x.host, x.before \o <<wrapper>> \o x.after)
         IN  IF ancestor # NoNode THEN unwrapNode(d, s, ancestor)
             ELSE [doc |-> wrapped,
                   sel |-> selectNodeContents(wrapped, x.host \o <<Len(x.before) + 1>>)]

(* -------------------------------- codec -------------------------------- *)

\* Markdown is a sequence of tokens: the characters of the text and the
\* marks of the syntax -- "**", "*", "_", "~~", "backtick" around inline
\* content; "# ", "## ", "### ", "> ", "- ", "1. " ..., "indent", "fence",
\* "---", "|", " --- ", "[", "![", "](", ")" ; "\n" ends a line, "  \n" is a
\* hard break, "\n\n" a blank line between blocks.  A character that happens
\* to be a mark is not told apart from the mark (turndown's escaping and
\* markdown-it's delimiter rules about flanking are left out).

\* String.trim() leaves nothing
IsBlank(chars) == \A i \in 1..Len(chars) : chars[i] \in {" ", "\t", "\n"}

LineBreaks == {"\n", "\n\n", "  \n"}
OrdinalMarks == <<"1. ", "2. ", "3. ", "4. ", "5. ", "6. ">>
HeadingMarks == <<"# ", "## ", "### ">>

\* the marks between blocks: a run of line ends is one, none at either end
Collapse(ts, atBreak) ==
    LET isBreak(i) == ts[i] \in {"\n\n", "\n"}
        runEnd(i) == CHOOSE k \in i..Len(ts) :
                         /\ \A j \in i..k : isBreak(j)
                         /\ (k = Len(ts) \/ ~isBreak(k + 1))
    IN  Flatten([i \in 1..Len(ts) |->
            IF ~isBreak(i) THEN <<ts[i]>>
            ELSE IF i > 1 /\ isBreak(i - 1) THEN << >>
            ELSE IF (i = 1 /\ atBreak) \/ runEnd(i) = Len(ts) THEN << >>
            ELSE IF \E j \in i..runEnd(i) : ts[j] = "\n\n" THEN <<"\n\n">>
            ELSE <<"\n">>])

\* every line of ts after the first prefixed with mark (a blank line is an
\* empty line, prefixed too when blank is so)
PrefixLines(ts, mark, blank) ==
    Flatten([i \in 1..Len(ts) |->
        IF ts[i] = "\n\n"
        THEN (IF blank THEN <<"\n", mark, "\n", mark>> ELSE <<"\n\n", mark>>)
        ELSE IF ts[i] \in LineBreaks THEN <<ts[i], mark>>
        ELSE <<ts[i]>>])

\* String.prototype.trim(): the white space at both ends goes, a no-break
\* space too
trim(chars) ==
    LET inked == {i \in 1..Len(chars) : chars[i] \notin {" ", "\t", "\n", "&nbsp;"}}
    IN  IF inked = {} THEN << >>
        ELSE SubSeq(chars, CHOOSE i \in inked : \A j \in inked : i <= j,
                    CHOOSE i \in inked : \A j \in inked : i >= j)

\* the number of the child i of kids among the elements of kids
ElementIndex(kids, i) == Cardinality({j \in 1..i : ~IsText(kids[j])})

\* turndown(n, ptag, idx): the markdown of node n, element number idx of an
\* element of tag ptag, by the rules in force: the built-in ones, for the
\* options given, and the added ones (strikethrough, fencedCodeBlock,
\* codeLangLabel, tableCell, tableRow, tableHead, tableBody, table).  An
\* inline element without content is blank and yields nothing; so does
\* white space between blocks.  The class of a <code> stands for the
\* language it names.
RECURSIVE turndown(_, _, _)
turndown(n, ptag, idx) ==
    LET content == Flatten([i \in 1..Len(n.kids) |->
                               turndown(n.kids[i], n.tag, ElementIndex(n.kids, i))])
        cells == SelectSeq(n.kids, IsCellTag)
        delimited(mark) ==
            IF content = << >> THEN << >> ELSE <<mark>> \o content \o <<mark>>
        block(ts) == <<"\n\n">> \o ts \o <<"\n\n">>
        cellContent(c) ==
            LET md == Collapse(Flatten([i \in 1..Len(c.kids) |->
                            turndown(c.kids[i], c.tag, ElementIndex(c.kids, i))]), TRUE)
            IN  trim([i \in 1..Len(md) |-> IF md[i] \in LineBreaks THEN " " ELSE md[i]])
        joined(n_, item(_)) ==
            Flatten([i \in 1..n_ |-> (IF i > 1 THEN <<"|">> ELSE << >>) \o item(i)])
        row == <<"|">>
               \o joined(Len(cells), LAMBDA i : <<" ">> \o cellContent(cells[i]) \o <<" ">>)
               \o <<"|", "\n">>
        rows == SelectSeq(n.kids, LAMBDA k : k.tag = "TR")
        separator ==
            IF rows = << >> THEN << >>
            ELSE <<"|">>
                 \o joined(Len(SelectSeq(rows[1].kids, IsCellTag)), LAMBDA i : <<" --- ">>)
                 \o <<"|", "\n">>
        codeEls == SelectSeq(n.kids, LAMBDA k : k.tag = "CODE")
        labels == SelectSeq(n.kids, LAMBDA k : getAttribute(k, "class") = "ce-code-lang")
        lang == IF codeEls # << >>
                THEN IF getAttribute(codeEls[1], "class") = NULL THEN << >>
                     ELSE <<getAttribute(codeEls[1], "class")>>
                ELSE IF getAttribute(labels[1], "data-lang") \in {NULL, ""} THEN << >>
                ELSE <<getAttribute(labels[1], "data-lang")>>
        code == IF codeEls # << >> THEN textContent(codeEls[1]) ELSE << >>
        fenced == <<"\n\n", "fence">> \o lang \o <<"\n">>
                  \o (IF code # << >> /\ code[Len(code)] = "\n"
                      THEN SubSeq(code, 1, Len(code) - 1) ELSE code)
                  \o <<"\n", "fence", "\n\n">>
        item == Collapse(content, TRUE)
    IN  CASE IsText(n) ->
                 IF IsBlank(n.text)
                    /\ ptag \in {"DIV", "TABLE", "THEAD", "TBODY", "TR", "UL", "OL",
                                 "BLOCKQUOTE"}
                 THEN << >> ELSE n.text
          [] n.tag \in {"STRONG", "B"} -> delimited("**")
          [] n.tag \in {"EM", "I"} -> delimited("*")
          [] n.tag \in {"DEL", "S"} -> delimited("~~")
          [] n.tag = "CODE" /\ ptag # "PRE" -> delimited("backtick")
          [] n.tag = "A" /\ getAttribute(n, "href") # NULL ->
                 IF content = << >> THEN << >>
                 ELSE <<"[">> \o content \o <<"](", getAttribute(n, "href"), ")">>
          [] n.tag = "IMG" ->
                 IF getAttribute(n, "src") = NULL THEN << >>
                 ELSE <<"![", getAttribute(n, "alt"), "](", getAttribute(n, "src"), ")">>
          [] n.tag = "BR" -> <<"  \n">>
          [] n.tag = "HR" -> block(<<"---">>)
          [] n.tag \in {"H1", "H2", "H3"} ->
                 IF content = << >> THEN <<"\n\n">>
                 ELSE block(<<HeadingMarks[CHOOSE l \in 1..3 :
                                              n.tag = <<"H1", "H2", "H3">>[l]]>> \o content)
          [] n.tag = "BLOCKQUOTE" ->
                 IF Collapse(content, TRUE) = << >> THEN <<"\n\n">>
                 ELSE block(<<"> ">> \o PrefixLines(Collapse(content, TRUE), "> ", TRUE))
          [] n.tag = "LI" ->
                 (IF ptag = "OL" THEN <<OrdinalMarks[Min(idx, Len(OrdinalMarks))]>>
                  ELSE <<"- ">>)
                 \o PrefixLines(item, "indent", FALSE) \o <<"\n">>
          [] n.tag \in {"UL", "OL"} ->
                 IF ptag = "LI" THEN <<"\n">> \o Collapse(content, TRUE)
                 ELSE block(Collapse(content, TRUE))
          [] n.tag = "PRE" /\ (codeEls # << >> \/ labels # << >>) -> fenced
          [] n.tag = "DIV" /\ getAttribute(n, "class") = "ce-code-lang" -> << >>
          [] n.tag \in {"TH", "TD"} -> << >>
          [] n.tag = "TR" -> row
          [] n.tag = "THEAD" -> content \o separator
          [] n.tag = "TABLE" -> <<"\n\n">> \o content \o <<"\n">>
          [] n.tag \in {"P", "DIV", "PRE"} -> block(content)
          [] OTHER -> content

\* the white space at the end of the output is trimmed away
RECURSIVE TrimEnd(_)
TrimEnd(ts) ==
    IF ts # << >> /\ ts[Len(ts)] \in LineBreaks \cup {" "}
    THEN TrimEnd(SubSeq(ts, 1, Len(ts) - 1))
    ELSE ts

\* serializeHtml(editorEl.innerHTML)
serializeHtml(d) == TrimEnd(Collapse(turndown(d, "", 1), TRUE))

\* the first position from from on of a token of ts in S, Len(ts) + 1 when
\* there is none
FirstIn(ts, from, S) ==
    LET hits == {i \in from..Len(ts) : ts[i] \in S}
    IN  IF hits = {} THEN Len(ts) + 1 ELSE CHOOSE i \in hits : \A j \in hits : i <= j

\* ts split at its tokens in S
RECURSIVE SplitAt(_, _)
SplitAt(ts, S) ==
    LET k == FirstIn(ts, 1, S)
    IN  IF k > Len(ts) THEN <<ts>>
        ELSE <<SubSeq(ts, 1, k - 1)>> \o SplitAt(SubSeq(ts, k + 1, Len(ts)), S)

RECURSIVE Trim(_)
Trim(ts) ==
    IF ts = << >> THEN ts
    ELSE IF Head(ts) = " " THEN Trim(Tail(ts))
    ELSE IF ts[Len(ts)] = " " THEN Trim(SubSeq(ts, 1, Len(ts) - 1))
    ELSE ts

\* markdown-it, inline: emphasis, strong, strikethrough, code span, link,
\* image, line break (breaks: true); a mark without its closing mark is text
Opens(ts, i) ==
    \/ ts[i] \in {"**", "*", "_", "~~", "backtick"} /\ FirstIn(ts, i + 2, {ts[i]}) <= Len(ts)
    \/ ts[i] = "[" /\ FirstIn(ts, i + 1, {"]("}) + 2 <= Len(ts)
                   /\ ts[FirstIn(ts, i + 1, {"]("}) + 2] = ")"
    \/ ts[i] = "![" /\ Len(ts) >= i + 4 /\ ts[i + 2] = "](" /\ ts[i + 4] = ")"
    \/ ts[i] \in LineBreaks
\* markdown-it, typographer: the replacements made in text (not in code);
\* "ellipsis" and "copyright" are the characters U+2026 and U+00A9
replacements(chars) ==
    [i \in 1..Len(chars) |->
        CASE chars[i] = "..." -> "ellipsis"
          [] chars[i] = "(c)" -> "copyright"
          [] OTHER -> chars[i]]
RECURSIVE parseInline(_)
parseInline(ts) ==
    LET h == Head(ts)
        opening == {i \in 1..Len(ts) : Opens(ts, i)}
        plain == IF opening = {} THEN Len(ts)
                 ELSE (CHOOSE i \in opening : \A j \in opening : i <= j) - 1
        close == FirstIn(ts, 3, {h})
        mid == FirstIn(ts, 2, {"]("})
        tag == CASE h = "**" -> "STRONG" [] h \in {"*", "_"} -> "EM" [] OTHER -> "S"
        after(k) == parseInline(SubSeq(ts, k + 1, Len(ts)))
    IN  IF ts = << >> THEN << >>
        ELSE IF plain > 0 THEN <<Text(replacements(SubSeq(ts, 1, plain)))>> \o after(plain)
        ELSE IF h \in {"**", "*", "_", "~~"}
        THEN <<Elem(tag, parseInline(SubSeq(ts, 2, close - 1)))>> \o after(close)
        ELSE IF h = "backtick"
        THEN <<Elem("CODE", <<Text(SubSeq(ts, 2, close - 1))>>)>> \o after(close)
        ELSE IF h = "["
        THEN <<ElemA("A", << <<"href", ts[mid + 1]>> >>,
                     parseInline(SubSeq(ts, 2, mid - 1)))>> \o after(mid + 2)
        ELSE IF h = "!["
        THEN <<ElemA("IMG", << <<"src", ts[4]>>, <<"alt", ts[2]>> >>, << >>)>> \o after(5)
        ELSE <<Elem("BR", << >>)>> \o after(1)

\* the line end markdown-it writes between the elements of a block
Spaced(nodes) ==
    <<Text(<<"\n">>)>> \o Flatten([i \in 1..Len(nodes) |-> <<nodes[i], Text(<<"\n">>)>>])

\* the lines of a quote without their "> ", blank lines as blank lines
RECURSIVE Unquote(_)
Unquote(ts) ==
    LET k == FirstIn(ts, 1, {"> "})
    IN  IF k > Len(ts) THEN ts
        ELSE IF k > 1 /\ k < Len(ts) /\ ts[k - 1] = "\n" /\ ts[k + 1] = "\n"
        THEN SubSeq(ts, 1, k - 2) \o <<"\n\n">> \o Unquote(SubSeq(ts, k + 2, Len(ts)))
        ELSE SubSeq(ts, 1, k - 1) \o Unquote(SubSeq(ts, k + 1, Len(ts)))

\* the lines of a list grouped by item: a line that starts with "indent"
\* continues the item before it
RECURSIVE ListItems(_)
ListItems(lines) ==
    IF lines = << >> THEN << >>
    ELSE LET more == ListItems(Tail(lines))
         IN  IF more # << >> /\ more[1] # << >> /\ more[1][1] # << >>
                /\ more[1][1][1] = "indent"
             THEN <<<<Head(lines)>> \o more[1]>> \o Tail(more)
             ELSE <<<<Head(lines)>>>> \o more

\* markdown-it, blocks: heading, quote, list, fence, table, rule, paragraph
RECURSIVE parseBlocks(_)

Least(S) == CHOOSE i \in S : \A j \in S : i <= j
LinesOf(b) == SelectSeq(SplitAt(b, {"\n", "\n\n"}), LAMBDA l : l # << >>)

\* a block runs to a blank line, a fence to its closing fence, a heading to
\* the end of its line, a paragraph to a line that begins another kind of
\* block (a line of dashes makes it a heading)
BlockEnds(ts) ==
    {i \in 1..Len(ts) :
        /\ \/ ts[i] = "\n\n"
           \/ ts[i] = "\n" /\ i < Len(ts) /\ ts[i + 1] \in {"\n", "\n\n"}
        /\ (i = Len(ts) \/ ts[i + 1] # "indent")}
BlockRun(ts, ends) == SubSeq(ts, 1, IF ends = {} THEN Len(ts) ELSE Least(ends) - 1)
lineEnd(b0, i) == FirstIn(b0, i, {"\n"})
startsTable(b0, i) ==
    /\ b0[i] = "|"
    /\ \E j \in (lineEnd(b0, i) + 1)..(lineEnd(b0, lineEnd(b0, i) + 1) - 1) : b0[j] = " --- "
BlockCuts(b0) ==
    {i \in 1..(Len(b0) - 1) :
        /\ b0[i] = "\n"
        /\ \/ b0[i + 1] \in {"# ", "## ", "### ", "> ", "- ", "1. ", "fence", "---"}
           \/ startsTable(b0, i + 1)}
closesFence(ts) == Head(ts) = "fence" /\ FirstIn(ts, 2, {"fence"}) <= Len(ts)
isHeading(h) == h \in {"# ", "## ", "### ", "---"}
isParagraph(ts, b0) ==
    /\ Head(ts) \notin {"> ", "- "}
    /\ \A i \in 1..Len(OrdinalMarks) : Head(ts) # OrdinalMarks[i]
    /\ ~closesFence(ts)
    /\ ~startsTable(b0, 1)
\* a paragraph with a line of dashes under it
underlined(h, b0, cuts, para) ==
    /\ para /\ ~isHeading(h) /\ cuts # {}
    /\ b0[Least(cuts) + 1] = "---"
    /\ lineEnd(b0, Least(cuts) + 1) = Least(cuts) + 2
BlockOf(ts, b0, cuts, para) ==
    IF closesFence(ts) THEN SubSeq(ts, 1, FirstIn(ts, 2, {"fence"}))
    ELSE IF isHeading(Head(ts)) THEN SubSeq(b0, 1, lineEnd(b0, 1) - 1)
    ELSE IF para /\ cuts # {} THEN SubSeq(b0, 1, Least(cuts) - 1)
    ELSE b0

\* list
listItem(ls) ==
    LET cont == [i \in 1..(Len(ls) - 1) |-> Tail(ls[i + 1]) \o <<"\n">>]
    IN  Elem("LI", parseInline(Tail(ls[1]))
                   \o (IF cont = << >> THEN << >>
                       ELSE <<Text(<<"\n">>)>> \o parseBlocks(Flatten(cont))))
\* a line that begins with neither a list mark nor an indent goes on with
\* the item before it
ListMarks == {"- ", "indent"} \cup {OrdinalMarks[i] : i \in 1..Len(OrdinalMarks)}
JoinedLines(b) ==
    [i \in 1..Len(b) |->
        IF b[i] = "\n" /\ i < Len(b) /\ b[i + 1] \notin ListMarks THEN "  \n" ELSE b[i]]
ListOfItems(items) == Spaced([i \in 1..Len(items) |-> listItem(items[i])])
ListOf(b) == ListOfItems(ListItems(LinesOf(JoinedLines(b))))

\* fence
FenceWith(lang, code) ==
    Elem("PRE", <<ElemA("DIV", << <<"class", "ce-code-lang">>,
                                  <<"contenteditable", "false">>,
                                  <<"data-lang", IF lang = << >> THEN "" ELSE lang[1]>> >>,
                        <<Text(IF lang = << >> THEN <<"plain text">> ELSE lang)>>),
                  ElemA("CODE",
                        IF lang = << >> THEN << >> ELSE << <<"class", lang[1]>> >>,
                        IF code = << >> THEN << >> ELSE <<Text(code)>>)>>)
FenceAt(b, open) == FenceWith(SubSeq(b, 2, open - 1), SubSeq(b, open + 1, Len(b) - 1))

\* table
CellsAmong(line, parts) ==
    [i \in 1..((IF line[Len(line)] = "|" THEN Len(parts) - 1 ELSE Len(parts))
               - (IF Head(line) = "|" THEN 2 ELSE 1) + 1) |->
        Trim(parts[(IF Head(line) = "|" THEN 2 ELSE 1) + i - 1])]
cellsOf(line) == CellsAmong(line, SplitAt(line, {"|"}))
\* a row has as many cells as the header row
RowOf(cells, tag, width) ==
    Elem("TR", Spaced([i \in 1..width |->
                          Elem(tag, IF i <= Len(cells) THEN parseInline(cells[i])
                                    ELSE << >>)]))
isTable(lines) == Len(lines) >= 2 /\ \E i \in 1..Len(lines[2]) : lines[2][i] = " --- "
TableWide(lines, width) ==
    Elem("TABLE",
         Spaced(<<Elem("THEAD", Spaced(<<RowOf(cellsOf(lines[1]), "TH", width)>>))>>
                \o (IF Len(lines) = 2 THEN << >>
                    ELSE <<Elem("TBODY",
                                Spaced([i \in 1..(Len(lines) - 2) |->
                                           RowOf(cellsOf(lines[i + 2]), "TD", width)]))>>)))
TableElement(lines) == TableWide(lines, Len(cellsOf(lines[1])))

\* the element of the block b
BlockNode(b, under) ==
    CASE Head(b) \in {"# ", "## ", "### "} ->
             Elem(<<"H1", "H2", "H3">>[CHOOSE l \in 1..3 : Head(b) = HeadingMarks[l]],
                  parseInline(Tail(b)))
      [] Head(b) = "> " -> Elem("BLOCKQUOTE", <<Text(<<"\n">>)>> \o parseBlocks(Unquote(b)))
      [] Head(b) = "- " -> Elem("UL", ListOf(b))
      [] \E i \in 1..Len(OrdinalMarks) : Head(b) = OrdinalMarks[i] -> Elem("OL", ListOf(b))
      [] Head(b) = "fence" /\ b[Len(b)] = "fence" /\ FirstIn(b, 2, {"\n"}) < Len(b) ->
             FenceAt(b, FirstIn(b, 2, {"\n"}))
      [] Head(b) = "|" /\ isTable(LinesOf(b)) -> TableElement(LinesOf(b))
      [] b = <<"---">> -> Elem("HR", << >>)
      [] under -> Elem("H2", parseInline(b))
      [] OTHER -> Elem("P", parseInline(b))

parseBlock(ts, b, under) ==
    <<BlockNode(b, under), Text(<<"\n">>)>>
        \o parseBlocks(SubSeq(ts, Len(b) + (IF under THEN 3 ELSE 1), Len(ts)))
parseCut(ts, b0, cuts, para) ==
    parseBlock(ts, BlockOf(ts, b0, cuts, para), underlined(Head(ts), b0, cuts, para))
parseRun(ts, b0) == parseCut(ts, b0, BlockCuts(b0), isParagraph(ts, b0))
parseBlocks(ts) ==
    IF ts = << >> THEN << >>
    ELSE IF Head(ts) \in LineBreaks THEN parseBlocks(Tail(ts))
    ELSE parseRun(ts, BlockRun(ts, BlockEnds(ts)))

\* parseMarkdown(markdown), as the children it gives the editable element
parseMarkdown(markdown) == parseBlocks(markdown)

(* --------------------------- block commands ---------------------------- *)

\* What a command leaves: the tree, the selection, and whether it went on to
\* refreshActiveState() (it does not when a guard returns early or a call
\* throws).
Left(d, s, refresh) == [doc |-> d, sel |-> s, refresh |-> refresh]

\* The cursor has left the editable element (wrapBlock wrapped the element
\* itself and put the cursor in the wrapper).
Outside == <<0, 0>>
OutsideSelection == Selection(Point(Outside, 1), Point(Outside, 1))

\* element.innerHTML = other.innerHTML: the children as the parser rebuilds
\* them from their markup -- neighbouring text nodes are one, empty ones are
\* gone.  (The parser's re-nesting of misplaced block elements is left out.)
RECURSIVE innerHTML(_)
innerHTML(kids) ==
    IF kids = << >> THEN << >>
    ELSE LET k == Head(kids)
             rest == innerHTML(Tail(kids))
         IN  IF IsText(k)
             THEN IF k.text = << >> THEN rest
                  ELSE IF rest # << >> /\ IsText(Head(rest))
                       THEN <<Text(k.text \o Head(rest).text)>> \o Tail(rest)
                  ELSE <<k>> \o rest
             ELSE <<[k EXCEPT !.kids = innerHTML(@)]>> \o rest

\* Where a boundary point goes when the node at path a is replaced by n nodes
\* (Node.replaceChild): a point inside the node falls to where the node was.
ReplacedPoint(pt, a, n) ==
    LET P == Parent(a)
        i == Last(a)
    IN  IF pt.node = NoNode THEN pt
        ELSE IF IsPrefix(a, pt.node) THEN Point(P, i - 1)
        ELSE IF pt.node = P
             THEN IF pt.offset >= i THEN Point(P, pt.offset + n - 1) ELSE pt
        ELSE IF IsPrefix(P, pt.node) /\ pt.node[Len(P) + 1] > i
             THEN Point([pt.node EXCEPT ![Len(P) + 1] = @ + n - 1], pt.offset)
        ELSE pt

\* the range after range.deleteContents() and range.insertNode(node): it
\* starts where the deleted content was and ends after the inserted node
RangeAfterInsert(d, r) ==
    LET x == Extract(d, r)
        c == commonAncestorContainer(r)
    IN  Selection(IF IsText(NodeAt(d, c)) THEN Point(c, r.start.offset)
                  ELSE Point(x.host, Len(x.before)),
                  Point(x.host, Len(x.before) + 1))

\* heading(level): the nearest P, DIV or heading above the anchor, below the
\* editable root; the root (<< >>) when there is none
RECURSIVE HeadingBlock(_, _)
HeadingBlock(d, p) ==
    IF p = << >> THEN << >>
    ELSE IF ~IsText(NodeAt(d, p))
            /\ NodeAt(d, p).tag \in {"P", "DIV", "H1", "H2", "H3", "H4", "H5", "H6"}
         THEN p
    ELSE HeadingBlock(d, Parent(p))

headingUnguarded(d, s, level) ==
    LET targetTag == <<"H1", "H2", "H3">>[level]
        block == HeadingBlock(d, s.anchor.node)
        bn == NodeAt(d, block)
        fresh == Elem(targetTag, <<Text(<<"Heading">>)>>)
        range == getRangeAt(s)
        x == Extract(d, range)
        inserted == SetKids(d, x.host, x.before \o <<fresh>> \o x.after)
        removed == SetKids(d, x.host, x.before \o x.after)
        at == Last(x.host)
        moved == [removed EXCEPT !.kids = SubSeq(@, 1, at) \o <<fresh>>
                                          \o SubSeq(@, at + 1, Len(@))]
        appended == [removed EXCEPT !.kids = @ \o <<fresh>>]
        empty == IsBlank(textContent(bn)) \/ bn.kids = <<Elem("BR", << >>)>>
        asP == ReplaceAt(d, block, <<Elem("P", innerHTML(bn.kids))>>)
        asH == ReplaceAt(d, block, <<IF empty THEN fresh
                                      ELSE Elem(targetTag, innerHTML(bn.kids))>>)
    IN  IF block = << >>
        THEN IF x.host = << >>
             THEN Left(inserted,
                       selectNodeContents(inserted, <<Len(x.before) + 1>>), TRUE)
             ELSE IF at = Len(NodeAt(d, Parent(x.host)).kids)
             THEN Left(appended, selectNodeContents(appended, <<Len(appended.kids)>>), TRUE)
             ELSE IF Parent(x.host) = << >>
             THEN Left(moved, selectNodeContents(moved, <<at + 1>>), TRUE)
             ELSE Left(inserted, RangeAfterInsert(d, range), FALSE)
        ELSE IF bn.tag = targetTag
        THEN Left(asP, Collapsed(Point(block, Len(NodeAt(asP, block).kids))), TRUE)
        ELSE Left(asH,
                  IF empty THEN selectNodeContents(asH, block)
                  ELSE Collapsed(Point(block, Len(NodeAt(asH, block).kids))),
                  TRUE)

\* heading(level): nothing inside a table cell
heading(d, s, level) ==
    IF s = NoSelection THEN Left(d, s, FALSE)
    ELSE IF findClosestCell(d, s.anchor.node, Undefined) # NoNode THEN Left(d, s, FALSE)
    ELSE headingUnguarded(d, s, level)

wrapBlockUnguarded(d, s, tagName) ==
    LET block == findClosestBlock(d, s.anchor.node)
        ancestor == findAncestor(d, block, tagName)
        u == unwrapNode(d, s, ancestor)
    IN  IF ancestor # NoNode /\ ancestor # << >> THEN Left(u.doc, u.sel, TRUE)
        ELSE IF block = << >> THEN Left(d, OutsideSelection, TRUE)
        ELSE Left(ReplaceAt(d, block, <<Elem(tagName, <<NodeAt(d, block)>>)>>),
                  Collapsed(Point(block, 1)), TRUE)

\* wrapBlock(tagName, editorEl): nothing inside a table cell.  When no block
\* lies between the anchor and the editable root the root itself is the
\* block: the wrapper goes around it, the tree below it stays.
wrapBlock(d, s, tagName) ==
    IF s = NoSelection THEN Left(d, s, TRUE)
    ELSE IF findClosestCell(d, s.anchor.node, Undefined) # NoNode THEN Left(d, s, TRUE)
    ELSE wrapBlockUnguarded(d, s, tagName)

(* --------------------------- command layer ----------------------------- *)

\* isInsideTag(tagName): the selection anchor is inside an element of the tag
isInsideTag(d, s, tagName) ==
    s # NoSelection /\ findAncestor(d, s.anchor.node, tagName) # NoNode

\* refreshActiveState(): the tags, of those tracked, the anchor is inside
refreshActiveState(d, s) ==
    LET tags == {"STRONG", "EM", "DEL", "S", "CODE", "A", "H1", "H2", "H3",
                 "BLOCKQUOTE", "PRE", "UL", "OL", "TABLE"}
    IN  IF s = OutsideSelection THEN {"BLOCKQUOTE"}
        ELSE {tag \in tags : isInsideTag(d, s, tag)}

\* bold(), italic(), strikethrough(), codeInline() with their tag
inline(d, s, tagName) ==
    IF isSelectionCrossCell(d, s) THEN [doc |-> d, sel |-> s]
    ELSE wrapSelection(d, s, tagName)

\* Selection.toString(): the text the selection shows, a tab between the
\* cells of a row, a line break after a row or a block
RECURSIVE rendered(_, _)
rendered(n, lastKid) ==
    LET content == Flatten([i \in 1..Len(n.kids) |-> rendered(n.kids[i], i = Len(n.kids))])
    IN  IF IsText(n) THEN n.text
        ELSE IF n.tag \in {"TD", "TH"}
             THEN content \o (IF lastKid THEN << >> ELSE <<"\t">>)
        ELSE IF n.tag \in {"TR", "P", "DIV", "H1", "H2", "H3", "LI", "BLOCKQUOTE", "PRE"}
             THEN content \o <<"\n">>
        ELSE content
toString(d, s) ==
    LET frag == Extract(d, getRangeAt(s)).frag
    IN  IF isCollapsed(s) THEN << >>
        ELSE Flatten([i \in 1..Len(frag) |-> rendered(frag[i], i = Len(frag))])

\* getSelectedBlocks(range, container): the children of the editable root,
\* of a block tag, whose contents the range meets
getSelectedBlocks(d, r) ==
    LET blockTags == {"P", "DIV", "H1", "H2", "H3", "H4", "H5", "H6", "LI", "BLOCKQUOTE"}
    IN  SelectSeq([i \in 1..Len(d.kids) |-> i],
                  LAMBDA i : /\ d.kids[i].tag \in blockTags
                             /\ PointBefore(Point(<<i>>, 0), r.end)
                             /\ PointBefore(r.start, Point(<<i>>, Len(d.kids[i].kids))))

\* convertListType(listEl, targetTag): the list, and the lists directly in
\* its items, and so on down, as lists of the target tag
RECURSIVE convertListType(_, _)
convertListType(n, targetTag) ==
    LET inItem(li) ==
            [li EXCEPT !.kids = [j \in 1..Len(@) |->
                IF @[j].tag \in {"UL", "OL"} THEN convertListType(@[j], targetTag)
                ELSE @[j]]]
        kids == [i \in 1..Len(n.kids) |->
                    IF n.kids[i].tag = "LI" THEN inItem(n.kids[i]) ELSE n.kids[i]]
    IN  IF n.tag = targetTag THEN [n EXCEPT !.kids = kids]
        ELSE Elem(targetTag, kids)

\* the outermost UL / OL above the node at p, NoNode when none
OutermostList(d, p) ==
    LET ks == {k \in 1..Len(p) : NodeAt(d, SubSeq(p, 1, k)).tag \in {"UL", "OL"}}
    IN  IF ks = {} THEN NoNode ELSE SubSeq(p, 1, CHOOSE k \in ks : \A j \in ks : k <= j)

insertListUnguarded(d, s, listTag) ==
    LET otherTag == IF listTag = "UL" THEN "OL" ELSE "UL"
        range == getRangeAt(s)
        \* inside a list of the same type: its items become paragraphs
        same == findAncestor(d, s.anchor.node, listTag)
        items == SelectSeq(NodeAt(d, same).kids, LAMBDA k : k.tag = "LI")
        paras == [i \in 1..Len(items) |-> Elem("P", innerHTML(items[i].kids))]
        \* inside a list of the other type: the outermost list is converted
        outer == OutermostList(d, s.anchor.node)
        \* else the blocks selected, several of them, become the items
        blocks == getSelectedBlocks(d, range)
        list == Elem(listTag, [i \in 1..Len(blocks) |->
                                  Elem("LI", innerHTML(d.kids[blocks[i]].kids))])
        listed == [d EXCEPT !.kids = Flatten([i \in 1..Len(@) |->
                        IF i = blocks[1] THEN <<list>>
                        ELSE IF \E j \in 1..Len(blocks) : blocks[j] = i THEN << >>
                        ELSE <<@[i]>>])]
        \* or the selected text, line by line, does
        text == IF toString(d, s) = << >> THEN <<"List item">> ELSE toString(d, s)
        lines == SelectSeq(SplitAt(text, {"\n"}), LAMBDA l : ~IsBlank(l))
        html == Elem(listTag,
                     IF lines = << >> THEN <<Elem("LI", <<Text(<<"List item">>)>>)>>
                     ELSE [i \in 1..Len(lines) |-> Elem("LI", <<Text(lines[i])>>)])
        x == Extract(d, range)
    IN  IF same # NoNode
        THEN IF same = << >> THEN Left(d, s, TRUE)
             ELSE Left(ReplaceAt(d, same, paras),
                       Selection(ReplacedPoint(s.anchor, same, Len(paras)),
                                 ReplacedPoint(s.focus, same, Len(paras))), TRUE)
        ELSE IF findAncestor(d, s.anchor.node, otherTag) # NoNode
        THEN IF outer = NoNode THEN Left(d, s, TRUE)
             ELSE Left(ReplaceAt(d, outer, <<convertListType(NodeAt(d, outer), listTag)>>),
                       Collapsed(range.start), TRUE)
        ELSE IF Len(blocks) > 1
        THEN Left(listed,
                  Collapsed(Point(<<blocks[1], Len(blocks)>>,
                                  Len(list.kids[Len(blocks)].kids))), TRUE)
        ELSE Left(InsertInRange(d, range, <<html>>),
                  Collapsed(Point(x.host, Len(x.before) + 1)), TRUE)

\* insertList(listTag) behind bulletList() and orderedList(): nothing inside
\* a table cell
insertList(d, s, listTag) ==
    IF s = NoSelection THEN Left(d, s, FALSE)
    ELSE IF findClosestCell(d, s.anchor.node, Undefined) # NoNode THEN Left(d, s, FALSE)
    ELSE insertListUnguarded(d, s, listTag)

\* findAncestorTag(node, tagName, boundary), the boundary being the editable
\* root: the closest element of the tag at or above the node, below the root
RECURSIVE findAncestorTag(_, _, _)
findAncestorTag(d, p, tagName) ==
    IF p = NoNode \/ p = << >> THEN NoNode
    ELSE IF ~IsText(NodeAt(d, p)) /\ NodeAt(d, p).tag = tagName THEN p
    ELSE findAncestorTag(d, Parent(p), tagName)

IsListTag(n) == ~IsText(n) /\ n.tag \in {"UL", "OL"}
\* previousElementSibling of the child at index i: its index, 0 when none
PreviousElement(kids, i) ==
    IF \E j \in 1..(i - 1) : ~IsText(kids[j])
    THEN Max({j \in 1..(i - 1) : ~IsText(kids[j])}) ELSE 0
\* querySelector(':scope > ul, :scope > ol'): the index of the first child
\* that is a list, 0 when none
FirstSubList(kids) ==
    IF \E k \in 1..Len(kids) : IsListTag(kids[k])
    THEN Least({k \in 1..Len(kids) : IsListTag(kids[k])}) ELSE 0

\* indentList() past its guards: the item at li, whose previous element
\* sibling is the item at index j of the same list, is appended to the first
\* sub-list of that item, a sub-list of the parent's type being appended to
\* it when it has none; the cursor goes to the start of the moved item
indentListInto(d, s, li, j) ==
    LET P == Parent(li)
        kids == NodeAt(d, P).kids
        prevLi == kids[j]
        sub == FirstSubList(prevLi.kids)
        at == IF sub = 0 THEN Len(prevLi.kids) + 1 ELSE sub
        into == IF sub = 0
                THEN [prevLi EXCEPT !.kids = @ \o <<Elem(NodeAt(d, P).tag, <<kids[Last(li)]>>)>>]
                ELSE [prevLi EXCEPT !.kids[sub].kids = @ \o <<kids[Last(li)]>>]
    IN  Left(SetKids(d, P, SubSeq(kids, 1, j - 1) \o <<into>>
                           \o SubSeq(kids, j + 1, Last(li) - 1)
                           \o SubSeq(kids, Last(li) + 1, Len(kids))),
             Collapsed(Point(P \o <<j, at, Len(into.kids[at].kids)>>, 0)), TRUE)

\* indentList(): nothing without a selection, outside a list item, for an
\* item with no previous element sibling that is an item, or whose parent is
\* not a list
indentList(d, s) ==
    LET li == IF s = NoSelection THEN NoNode ELSE findAncestorTag(d, s.anchor.node, "LI")
        j == IF li = NoNode THEN 0 ELSE PreviousElement(NodeAt(d, Parent(li)).kids, Last(li))
    IN  IF li = NoNode THEN Left(d, s, FALSE)
        ELSE IF j = 0 THEN Left(d, s, FALSE)
        ELSE IF NodeAt(d, Parent(li)).kids[j].tag # "LI" THEN Left(d, s, FALSE)
        ELSE IF ~IsListTag(NodeAt(d, Parent(li))) THEN Left(d, s, FALSE)
        ELSE indentListInto(d, s, li, j)

\* an outdentList that leaves the list it took the item from in place
outdentListKeepsList(d, s, li) ==
    LET P == Parent(li)
        G == Parent(P)
        pk == NodeAt(d, P).kids
        inG == SetKids(d, P, SubSeq(pk, 1, Last(li) - 1))
    IN  Left(ReplaceAt(inG, G, <<NodeAt(inG, G), pk[Last(li)]>>),
             Collapsed(Point(Parent(G) \o <<Last(G) + 1>>, 0)), TRUE)
\* outdentList() past its guards, the item at li in the list P, itself in
\* the item G of the list above: the element siblings after the item go
\* into a new sub-list appended to it, the item goes right after G, and the
\* list P is removed when no element is left in it
outdentListFrom(d, s, li) ==
    LET P == Parent(li)
        G == Parent(P)
        pk == NodeAt(d, P).kids
        rest == SubSeq(pk, Last(li) + 1, Len(pk))
        siblingsAfter == SelectSeq(rest, LAMBDA k : ~IsText(k))
        moved == IF siblingsAfter = << >> THEN pk[Last(li)]
                 ELSE [pk[Last(li)] EXCEPT
                          !.kids = @ \o <<Elem(NodeAt(d, P).tag, siblingsAfter)>>]
        left == SubSeq(pk, 1, Last(li) - 1) \o SelectSeq(rest, IsText)
        emptied == SelectSeq(left, LAMBDA k : ~IsText(k)) = << >>
        inG == ReplaceAt(d, P, IF emptied THEN << >>
                               ELSE <<[NodeAt(d, P) EXCEPT !.kids = left]>>)
    IN  Left(ReplaceAt(inG, G, <<NodeAt(inG, G), moved>>),
             Collapsed(Point(Parent(G) \o <<Last(G) + 1>>, 0)), TRUE)

\* outdentList(): nothing without a selection, outside a list item, or for
\* an item whose list is not inside an item of another list
outdentList(d, s) ==
    LET li == IF s = NoSelection THEN NoNode ELSE findAncestorTag(d, s.anchor.node, "LI")
    IN  IF li = NoNode THEN Left(d, s, FALSE)
        ELSE IF ~IsListTag(NodeAt(d, Parent(li))) THEN Left(d, s, FALSE)
        ELSE IF NodeAt(d, Parent(Parent(li))).tag # "LI" THEN Left(d, s, FALSE)
        ELSE IF ~IsListTag(NodeAt(d, Parent(Parent(Parent(li))))) THEN Left(d, s, FALSE)
        ELSE outdentListFrom(d, s, li)

codeBlockUnguarded(d, s) ==
    LET preNode == findAncestor(d, s.anchor.node, "PRE")
        content == textContent(NodeAt(d, preNode))
        p == Elem("P", IF content = << >> THEN << >> ELSE <<Text(content)>>)
        text == IF toString(d, s) = << >> THEN <<"code">> ELSE toString(d, s)
        langLabel == ElemA("DIV", << <<"class", "ce-code-lang">>,
                                     <<"contenteditable", "false">>,
                                     <<"data-lang", "">> >>,
                           <<Text(<<"plain text">>)>>)
        html == << Elem("PRE", <<langLabel, Elem("CODE", <<Text(text)>>)>>),
                   Elem("P", <<Elem("BR", << >>)>>) >>
        range == getRangeAt(s)
        x == Extract(d, range)
    IN  IF preNode # NoNode
        THEN Left(ReplaceAt(d, preNode, <<p>>),
                  Selection(ReplacedPoint(s.anchor, preNode, 1),
                            ReplacedPoint(s.focus, preNode, 1)), TRUE)
        ELSE Left(InsertInRange(d, range, html),
                  Collapsed(Point(x.host, Len(x.before) + 2)), TRUE)

\* codeBlock(): nothing inside a table cell
codeBlockAt(d, s) ==
    IF s = NoSelection THEN Left(d, s, FALSE)
    ELSE IF findClosestCell(d, s.anchor.node, Undefined) # NoNode THEN Left(d, s, FALSE)
    ELSE codeBlockUnguarded(d, s)

\* A command ran: the tree and the selection it left, its name, and the tree
\* and selection it found (cPre); refresh tells whether it went on to
\* refreshActiveState().  Commands given with the cursor outside the editable
\* element are not followed.
Ran(name, result, refresh) ==
    /\ ops < MaxOps
    /\ sel # OutsideSelection
    /\ doc' = result.doc
    /\ sel' = result.sel
    /\ activeTags' = IF refresh THEN refreshActiveState(result.doc, result.sel)
                     ELSE activeTags
    /\ ops' = ops + 1
    /\ cLastOp' = name
    /\ cPre' = [doc |-> doc, sel |-> sel]
    /\ UNCHANGED <<hvars, tvars, evars, pvars, uvars>>

bold == Ran("bold", inline(doc, sel, "STRONG"), ~isSelectionCrossCell(doc, sel))
italic == Ran("italic", inline(doc, sel, "EM"), ~isSelectionCrossCell(doc, sel))
strikethrough ==
    Ran("strikethrough", inline(doc, sel, "DEL"), ~isSelectionCrossCell(doc, sel))
codeInline ==
    Ran("codeInline", inline(doc, sel, "CODE"), ~isSelectionCrossCell(doc, sel))

heading1 == LET r == heading(doc, sel, 1) IN Ran("heading1", r, r.refresh)
heading2 == LET r == heading(doc, sel, 2) IN Ran("heading2", r, r.refresh)
heading3 == LET r == heading(doc, sel, 3) IN Ran("heading3", r, r.refresh)
bulletList == LET r == insertList(doc, sel, "UL") IN Ran("bulletList", r, r.refresh)
orderedList == LET r == insertList(doc, sel, "OL") IN Ran("orderedList", r, r.refresh)
blockquote == LET r == wrapBlock(doc, sel, "BLOCKQUOTE") IN Ran("blockquote", r, r.refresh)
codeBlock == LET r == codeBlockAt(doc, sel) IN Ran("codeBlock", r, r.refresh)

\* The documents the runs start from: a paragraph with an emphasised part; a
\* table as the table command builds it (a header row and a body row, no
\* text between the elements); two one-column tables one after the other; a
\* heading and a paragraph; a quoted list.
Documents ==
    LET Para == Elem("P", <<Text(<<"a", "b">>), Elem("EM", <<Text(<<"c", "d">>)>>)>>)
        Th(c) == Elem("TH", <<Text(<<c>>)>>)
        Td(c) == Elem("TD", <<Text(<<c>>)>>)
        TableOf(head, body) ==
            Elem("TABLE", <<Elem("THEAD", <<Elem("TR", head)>>),
                            Elem("TBODY", <<Elem("TR", body)>>)>>)
    IN  {EditorEl(<<Para>>),
         EditorEl(<<TableOf(<<Th("h"), Th("k")>>, <<Td("x"), Td("y")>>)>>),
         EditorEl(<<TableOf(<<Th("h")>>, <<Td("x")>>),
                    TableOf(<<Th("k")>>, <<Td("y")>>)>>),
         EditorEl(<<Elem("H1", <<Text(<<"t">>)>>), Elem("P", <<Text(<<"a">>)>>)>>),
         EditorEl(<<Elem("BLOCKQUOTE",
                         <<Elem("UL", <<Elem("LI", <<Text(<<"a">>)>>)>>)>>)>>)}

\* the editor showing document d with selection s, no command run yet
NewDocument(d, s) ==
    /\ doc = d
    /\ sel = s
    /\ activeTags = {}
    /\ ops = 0
    /\ cLastOp = "new"
    /\ cPre = [doc |-> d, sel |-> s]

\* no document is open (the history engine or the table operations run alone)
NoDocument == NewDocument(EditorEl(<< >>), NoSelection)

\* the editor component in mode m, disabled or not, bound to the markdown md
\* (v-model), the textarea's cursor at the start, no gesture made yet
NewEditor(m, dis, md) ==
    /\ currentMode = m
    /\ mode = m
    /\ disabled = dis
    /\ modelValue = md
    /\ selectionStart = 0
    /\ selectionEnd = 0
    /\ inputTimer = 0
    /\ highlightTimer = 0
    /\ structuralMds = << >>
    /\ gesture = [kind |-> "new", name |-> "new"]
    /\ invoked = "none"
    /\ emitted = << >>
    /\ ePre = [doc |-> EditorEl(<< >>), sel |-> NoSelection, modelValue |-> md,
               undoStack |-> << >>, redoStack |-> << >>, currentMode |-> m,
               inputTimer |-> 0, highlightTimer |-> 0]

\* no editor component is mounted (an engine or the command layer runs alone)
NoEditor == NewEditor("wysiwyg", FALSE, << >>) /\ highlightProp = FALSE

\* no pure function applied
NoPure == pureIn = << >> /\ pureOut = << >> /\ pureOp = "none"

\* the composable is not in use
NoComposable == isSyncing = FALSE /\ watching = FALSE /\ rerendered = FALSE

\* a command run as one of a sequence of at most limit commands; cPre keeps
\* what the command started from and, in was, what the command before it
\* started from and which command that was
RanWithin(limit, name, result) ==
    /\ ops < limit
    /\ doc' = result.doc
    /\ sel' = result.sel
    /\ activeTags' = IF result.refresh THEN refreshActiveState(result.doc, result.sel)
                     ELSE activeTags
    /\ ops' = ops + 1
    /\ cLastOp' = name
    /\ cPre' = [doc |-> doc, sel |-> sel,
                was |-> [doc |-> cPre.doc, sel |-> cPre.sel, op |-> cLastOp]]
    /\ UNCHANGED <<hvars, tvars, evars, pvars, uvars>>

\* the toolbar's list buttons and Tab / Shift+Tab in a list item
IndentList == RanWithin(MaxListOps, "indentList", indentList(doc, sel))
OutdentList == RanWithin(MaxListOps, "outdentList", outdentList(doc, sel))
RequestList ==
    \E listTag \in {"UL", "OL"} :
        RanWithin(MaxListOps, IF listTag = "UL" THEN "bulletList" ELSE "orderedList",
                  insertList(doc, sel, listTag))
\* the user puts the cursor at the start of another text
PlaceCursor ==
    /\ \E p \in (Paths(doc) \ {<< >>}) :
           /\ IsText(NodeAt(doc, p))
           /\ ~IsBlank(NodeAt(doc, p).text)
           /\ sel # Collapsed(Point(p, 0))
           /\ sel' = Collapsed(Point(p, 0))
    /\ UNCHANGED <<doc, activeTags, ops, cLastOp, cPre>>
    /\ UNCHANGED <<hvars, tvars, evars, pvars, uvars>>

CommandNext ==
    \/ bold
    \/ italic
    \/ strikethrough
    \/ codeInline
    \/ heading1
    \/ heading2
    \/ heading3
    \/ bulletList
    \/ orderedList
    \/ blockquote
    \/ codeBlock

(* ------------------------ insertion commands --------------------------- *)

\* insertHtmlAtCursor(html), the html given as the nodes it parses to: the
\* selected content is deleted, the nodes are inserted there and the cursor
\* is placed after the last of them
insertHtmlAtCursor(d, s, nodes) ==
    IF s = NoSelection THEN [doc |-> d, sel |-> s]
    ELSE LET x == Extract(d, getRangeAt(s))
         IN  [doc |-> SetKids(d, x.host, x.before \o nodes \o x.after),
              sel |-> Collapsed(Point(x.host, Len(x.before) + Len(nodes)))]

\* link(): url is what prompt() returned, NULL when it was dismissed or left
\* empty.  The text is escaped and parsed back, which leaves it as it was.
link(d, s, url) ==
    IF url = NULL THEN Left(d, s, FALSE)
    ELSE LET selectedText == IF s = NoSelection THEN << >> ELSE toString(d, s)
             finalText == IF selectedText = << >> THEN <<url>> ELSE selectedText
             r == insertHtmlAtCursor(d, s, <<ElemA("A", << <<"href", url>> >>,
                                                   <<Text(finalText)>>)>>)
         IN  Left(r.doc, r.sel, TRUE)

\* image(): src is what prompt() returned
image(d, s, src) ==
    IF src = NULL THEN Left(d, s, FALSE)
    ELSE LET r == insertHtmlAtCursor(d, s, <<ElemA("IMG", << <<"src", src>>,
                                                             <<"alt", "image">> >>,
                                                   << >>)>>)
         IN  Left(r.doc, r.sel, FALSE)

EmptyParagraph == Elem("P", <<Elem("BR", << >>)>>)

horizontalRule(d, s) ==
    LET r == insertHtmlAtCursor(d, s, <<Elem("HR", << >>), EmptyParagraph>>)
    IN  Left(r.doc, r.sel, FALSE)

\* table(rows = 3, cols = 3)
TableRows == 3
TableCols == 3
tableCommand(d, s) ==
    LET headerCells == [i \in 1..TableCols |->
                           Elem("TH", <<Text(<<"Header ", <<"1", "2", "3", "4">>[i]>>)>>)]
        bodyRows == [j \in 1..(TableRows - 1) |->
                        Elem("TR", [i \in 1..TableCols |-> Elem("TD", <<Text(<<"Cell">>)>>)])]
        r == insertHtmlAtCursor(d, s,
                 <<Elem("TABLE", <<Elem("THEAD", <<Elem("TR", headerCells)>>),
                                   Elem("TBODY", bodyRows)>>),
                   EmptyParagraph>>)
    IN  Left(r.doc, r.sel, TRUE)

\* the action names the toolbar is built from and the context offers
CommandNames ==
    {"bold", "italic", "strikethrough", "heading1", "heading2", "heading3",
     "bulletList", "orderedList", "blockquote", "codeInline", "codeBlock",
     "link", "image", "horizontalRule", "table"}
ActionNames == CommandNames \cup {"indentList", "outdentList", "undo", "redo"}

\* the command layer's function for the action name, given what prompt()
\* returns should the command ask
InlineTagOf(name) ==
    CASE name = "bold" -> "STRONG"
      [] name = "italic" -> "EM"
      [] name = "strikethrough" -> "DEL"
      [] name = "codeInline" -> "CODE"
HeadingLevelOf(name) ==
    CASE name = "heading1" -> 1 [] name = "heading2" -> 2 [] name = "heading3" -> 3
inlineLeft(d, s, r) == Left(r.doc, r.sel, ~isSelectionCrossCell(d, s))
Command(name, d, s, input) ==
    CASE name \in {"bold", "italic", "strikethrough", "codeInline"} ->
             inlineLeft(d, s, inline(d, s, InlineTagOf(name)))
      [] name \in {"heading1", "heading2", "heading3"} -> heading(d, s, HeadingLevelOf(name))
      [] name \in {"bulletList", "orderedList"} ->
             insertList(d, s, IF name = "bulletList" THEN "UL" ELSE "OL")
      [] name = "blockquote" -> wrapBlock(d, s, "BLOCKQUOTE")
      [] name = "codeBlock" -> codeBlockAt(d, s)
      [] name = "link" -> link(d, s, input)
      [] name = "image" -> image(d, s, input)
      [] name = "horizontalRule" -> horizontalRule(d, s)
      [] name = "table" -> tableCommand(d, s)

(* ------------------------- editor component ---------------------------- *)

\* What the component and its two editors hold between events.  The host
\* binds modelValue and mode with v-model, so what is emitted comes back as
\* the prop; emitted lists the update:modelValue payloads of the gesture
\* under way, invoked the command or history operation it called.
Here ==
    [doc |-> doc, sel |-> sel, activeTags |-> activeTags,
     modelValue |-> modelValue, currentMode |-> currentMode, mode |-> mode,
     selectionStart |-> selectionStart, selectionEnd |-> selectionEnd,
     undoStack |-> undoStack, redoStack |-> redoStack,
     timers |-> timers, debounceTimer |-> debounceTimer,
     inputTimer |-> inputTimer, highlight |-> highlightProp,
     highlightTimer |-> highlightTimer, emitted |-> << >>, invoked |-> "none"]

\* editorEl.innerHTML = parseMarkdown(md): the children are replaced, and a
\* selection inside them collapses to the start of the element
Rendered(st, md) ==
    [st EXCEPT !.doc = EditorEl(parseMarkdown(md)),
               !.sel = IF @ \in {NoSelection, OutsideSelection} THEN @
                       ELSE Collapsed(Point(<< >>, 0))]

\* emit('update:modelValue', md) up to the host and back down as the prop.
\* WysiwygEditor's watcher renders the markdown when the tree serializes to
\* something else; the textarea, unless the value is the one it holds
\* already (own), takes the value and puts its cursor at the end.
emitModelValue(st, md, own) ==
    LET published == [st EXCEPT !.modelValue = md, !.emitted = Append(@, md)]
        shown == IF own \/ md = st.modelValue THEN published
                 ELSE [published EXCEPT !.selectionStart = Len(md),
                                        !.selectionEnd = Len(md)]
    IN  IF md = st.modelValue THEN published
        ELSE IF serializeHtml(st.doc) # md THEN Rendered(shown, md)
        ELSE shown

\* WysiwygEditor: syncToMarkdown() and refreshFromMarkdown()
syncToMarkdown(st) == serializeHtml(st.doc)
refreshFromMarkdown(st) == Rendered(st, st.modelValue)

\* history.pushState(md) and history.pushImmediate(md) on the state st
historyPushState(st, md) ==
    [st EXCEPT !.timers = pushStateTimers(st.timers, st.debounceTimer, md, now),
               !.debounceTimer = SetTimeout(st.timers, md, now)]
\* a pushImmediate that waits like pushState
historyPushDebounced(st, md) == historyPushState(st, md)
historyPushImmediate(st, md) ==
    LET p == _push(st.undoStack, st.redoStack, maxDepth, md, now)
    IN  [st EXCEPT !.undoStack = p.undoStack, !.redoStack = p.redoStack,
                   !.timers = pushImmediateTimers(st.timers, st.debounceTimer)]

\* onContentUpdate(md) and onWysiwygInput()
onContentUpdate(st, md, own) == historyPushState(emitModelValue(st, md, own), md)
onWysiwygInput(st) ==
    LET md == syncToMarkdown(st)
    IN  IF md # st.modelValue THEN historyPushState(emitModelValue(st, md, FALSE), md)
        ELSE st

\* doUndo() and doRedo(), the refresh queued with nextTick included
doUndo(st) ==
    LET r == undo(st.undoStack, st.redoStack)
        popped == [st EXCEPT !.undoStack = r.undoStack, !.redoStack = r.redoStack,
                             !.invoked = "undo"]
        published == emitModelValue(popped, r.ret.markdown, FALSE)
    IN  IF ~canUndo(st.undoStack) THEN [st EXCEPT !.invoked = "undo"]
        ELSE IF st.currentMode = "wysiwyg" THEN refreshFromMarkdown(published)
        ELSE published
doRedo(st) ==
    LET r == redo(st.undoStack, st.redoStack)
        popped == [st EXCEPT !.undoStack = r.undoStack, !.redoStack = r.redoStack,
                             !.invoked = "redo"]
        published == emitModelValue(popped, r.ret.markdown, FALSE)
    IN  IF ~canRedo(st.redoStack) THEN [st EXCEPT !.invoked = "redo"]
        ELSE IF st.currentMode = "wysiwyg" THEN refreshFromMarkdown(published)
        ELSE published

\* handleWysiwygAction(action), with the synchronisation it queues with
\* nextTick: the tree is serialized, published and checkpointed
checkpointed(st, md) == historyPushImmediate(emitModelValue(st, md, FALSE), md)
syncAfter(ran) == checkpointed(ran, syncToMarkdown(ran))
ranCommand(st, action, r) ==
    [st EXCEPT !.doc = r.doc, !.sel = r.sel,
               !.activeTags = IF r.refresh THEN refreshActiveState(r.doc, r.sel) ELSE @,
               !.invoked = action]
handleWysiwygAction(st, action, input) ==
    IF action = "undo" THEN doUndo(st)
    ELSE IF action = "redo" THEN doRedo(st)
    ELSE IF action \in CommandNames
    THEN syncAfter(ranCommand(st, action, Command(action, st.doc, st.sel, input)))
    ELSE st

\* insertTextareaSyntax(textarea, before, after) and MarkdownEditor's
\* insertSyntax and insertBlock around it
insertSyntax(st, before, after) ==
    LET text == st.modelValue
        selected == SubSeq(text, st.selectionStart + 1, st.selectionEnd)
        newValue == SubSeq(text, 1, st.selectionStart) \o before \o selected \o after
                    \o SubSeq(text, st.selectionEnd + 1, Len(text))
        placed == [st EXCEPT !.selectionStart = st.selectionStart + Len(before),
                             !.selectionEnd = st.selectionStart + Len(before)
                                              + Len(selected)]
    IN  onContentUpdate(placed, newValue, TRUE)
insertBlock(st, block) ==
    LET text == st.modelValue
        newValue == SubSeq(text, 1, st.selectionStart) \o block
                    \o SubSeq(text, st.selectionStart + 1, Len(text))
        placed == [st EXCEPT !.selectionStart = st.selectionStart + Len(block),
                             !.selectionEnd = st.selectionStart + Len(block)]
    IN  onContentUpdate(placed, newValue, TRUE)

TableBlock ==
    LET line(c) == <<"|", " ", c, " ", "|", " ", c, " ", "|", " ", c, " ", "|", "\n">>
    IN  <<"\n", "|", " ", "Header 1", " ", "|", " ", "Header 2", " ", "|", " ",
          "Header 3", " ", "|", "\n">>
        \o <<"|", " --- ", "|", " --- ", "|", " --- ", "|", "\n">>
        \o line("Cell") \o line("Cell")

\* what handleMarkdownAction has insertSyntax put before and after the
\* selection, and has insertBlock insert, for the action
SyntaxOf(action) ==
    CASE action = "bold" -> <<<<"**">>, <<"**">>>>
      [] action = "italic" -> <<<<"*">>, <<"*">>>>
      [] action = "strikethrough" -> <<<<"~~">>, <<"~~">>>>
      [] action = "heading1" -> <<<<"# ">>, << >>>>
      [] action = "heading2" -> <<<<"## ">>, << >>>>
      [] action = "heading3" -> <<<<"### ">>, << >>>>
      [] action = "bulletList" -> <<<<"- ">>, << >>>>
      [] action = "orderedList" -> <<<<"1. ">>, << >>>>
      [] action = "blockquote" -> <<<<"> ">>, << >>>>
      [] action = "codeInline" -> <<<<"backtick">>, <<"backtick">>>>
      [] action = "link" -> <<<<"[">>, <<"](", "url", ")">>>>
      [] action = "image" -> <<<<"![", "alt", "](">>, <<")">>>>
BlockFor(action) ==
    CASE action = "codeBlock" -> <<"\n", "fence", "\n", "\n", "fence", "\n">>
      [] action = "horizontalRule" -> <<"\n", "---", "\n">>
      [] action = "table" -> TableBlock

handleMarkdownAction(st, action) ==
    IF action \in {"codeBlock", "horizontalRule", "table"}
    THEN insertBlock(st, BlockFor(action))
    ELSE IF action = "undo" THEN doUndo(st)
    ELSE IF action = "redo" THEN doRedo(st)
    ELSE IF action \in CommandNames
    THEN insertSyntax(st, SyntaxOf(action)[1], SyntaxOf(action)[2])
    ELSE st

handleToolbarAction(st, actionName, input) ==
    LET saved == IF actionName \notin {"undo", "redo"}
                 THEN historyPushImmediate(st, st.modelValue)
                 ELSE st
    IN  IF disabled THEN st
        ELSE IF st.currentMode = "wysiwyg"
        THEN handleWysiwygAction(saved, actionName, input)
        ELSE handleMarkdownAction(saved, actionName)

\* toggleMode(), the refresh queued with nextTick included; update:mode
\* comes back as the mode prop
toggleMode(st) ==
    LET saved == historyPushImmediate(st, st.modelValue)
        md == syncToMarkdown(saved)
        synced == IF md # saved.modelValue THEN emitModelValue(saved, md, FALSE)
                  ELSE saved
    IN  IF st.currentMode = "wysiwyg"
        THEN [synced EXCEPT !.currentMode = "markdown", !.mode = "markdown"]
        ELSE refreshFromMarkdown([saved EXCEPT !.currentMode = "wysiwyg",
                                               !.mode = "wysiwyg"])

\* the host sets the mode prop: watch(() => props.mode)
watchMode(st, m) ==
    IF m # st.currentMode THEN [st EXCEPT !.mode = m, !.currentMode = m]
    ELSE [st EXCEPT !.mode = m]

\* onInput()'s repair: a <pre> that lost its <code> gets an empty one for
\* the language of its label, and the cursor is put into it
RECURSIVE repairPre(_)
repairPre(n) ==
    LET kids == [i \in 1..Len(n.kids) |-> repairPre(n.kids[i])]
        inside == Below(n, << >>)
        hasCode == \E i \in 1..Len(inside) : NodeAt(n, inside[i]).tag = "CODE"
        labels == SelectSeq(inside, LAMBDA p : getAttribute(NodeAt(n, p), "class")
                                               = "ce-code-lang")
        lang == IF labels = << >> THEN NULL
                ELSE getAttribute(NodeAt(n, labels[1]), "data-lang")
        codeEl == ElemA("CODE",
                        IF lang \in {NULL, ""} THEN << >> ELSE << <<"class", lang>> >>,
                        <<Text(<< >>)>>)
    IN  IF IsText(n) THEN n
        ELSE IF n.tag = "PRE" /\ ~hasCode THEN [n EXCEPT !.kids = @ \o <<codeEl>>]
        ELSE [n EXCEPT !.kids = kids]

\* The timeouts pending on a debounce channel are counted.  A handler that
\* is about to set one first clears the one its handle names:
\* if (timer) clearTimeout(timer); timer = setTimeout(...)
cleared(pending) == IF pending > 0 THEN pending - 1 ELSE 0
\* a restart that clears nothing
restartedNoClear(pending) == pending + 1
restarted(pending) == cleared(pending) + 1

\* WysiwygEditor's onInput(): 'input' goes up to onWysiwygInput, the
\* re-highlight timer is set when there is a highlight function, the pre
\* blocks are repaired and the input timer is set
onInput(st) ==
    LET told == onWysiwygInput(st)
        all == Below(st.doc, << >>)
        bare == SelectSeq(all, LAMBDA p :
                    /\ NodeAt(st.doc, p).tag = "PRE"
                    /\ \A i \in 1..Len(all) :
                           IsPrefix(p, all[i]) => NodeAt(st.doc, all[i]).tag # "CODE")
        into == bare[Len(bare)] \o <<Len(NodeAt(st.doc, bare[Len(bare)]).kids) + 1>>
        timed == [told EXCEPT !.highlightTimer = IF st.highlight THEN restarted(@) ELSE @,
                              !.inputTimer = restarted(@)]
    IN  IF bare = << >> THEN timed
        ELSE [timed EXCEPT !.doc = repairPre(@), !.sel = Collapsed(Point(into, 0))]

\* an input timer whose callback publishes nothing
inputTimerDropped(st) == [st EXCEPT !.inputTimer = @ - 1]

\* the input timer's callback: the tree is serialized and emitted, and
\* onContentUpdate takes it
inputTimerFired(st) ==
    onContentUpdate([st EXCEPT !.inputTimer = @ - 1], serializeHtml(st.doc), FALSE)

\* onPaste(e) of plain text (no markup on the clipboard); a line end in it
\* becomes a <br>
onPaste(st, text) ==
    LET lines == SplitAt(text, {"\n"})
        nodes == Flatten([i \in 1..Len(lines) |->
                     (IF i > 1 THEN <<Elem("BR", << >>)>> ELSE << >>)
                     \o (IF lines[i] = << >> THEN << >> ELSE <<Text(lines[i])>>)])
        x == Extract(st.doc, getRangeAt(st.sel))
        r == insertHtmlAtCursor(st.doc, st.sel, nodes)
        placed == [st EXCEPT !.doc = r.doc,
                             !.sel = IF nodes = << >>
                                     THEN Collapsed(Point(x.host, Len(x.before)))
                                     ELSE r.sel]
    IN  IF st.sel = NoSelection THEN st ELSE onInput(placed)

\* onKeydown(e): the cell the key is taken to be pressed in
KeyCell(d, s) ==
    LET r == getRangeAt(s)
        byEnd == findClosestCell(d, r.end.node, Undefined)
        byStart == findClosestCell(d, r.start.node, Undefined)
    IN  IF s = NoSelection THEN NoNode
        ELSE IF byEnd # NoNode THEN byEnd
        ELSE IF byStart # NoNode THEN byStart
        ELSE findClosestCell(d, s.anchor.node, s.anchor.offset)

\* getAdjacentCell(cell, direction): the cell before or after in
\* table.querySelectorAll('th, td'), NoNode at either end
getAdjacentCell(d, cell, direction) ==
    LET ks == {k \in 0..Len(cell) : NodeAt(d, SubSeq(cell, 1, k)).tag = "TABLE"}
        tablePath == SubSeq(cell, 1, Max(ks))
        allCells == SelectSeq(Descendants(d, tablePath),
                              LAMBDA p : IsCellTag(NodeAt(d, p)))
        idx == CHOOSE i \in 1..Len(allCells) : allCells[i] = cell
        to == IF direction = "next" THEN idx + 1 ELSE idx - 1
    IN  IF ks = {} THEN NoNode
        ELSE IF to \in 1..Len(allCells) THEN allCells[to]
        ELSE NoNode

\* onKeydown(e) for Tab (shiftKey or not) with the selection in a cell
onTab(st, shiftKey) ==
    LET adjacent == getAdjacentCell(st.doc, KeyCell(st.doc, st.sel),
                                    IF shiftKey THEN "prev" ELSE "next")
    IN  IF disabled THEN st
        ELSE IF adjacent # NoNode
        THEN [st EXCEPT !.sel = selectNodeContents(st.doc, adjacent)]
        ELSE st

\* onKeydown(e) for Enter, no shift, with the selection in a cell
onEnter(st) ==
    LET r == insertHtmlAtCursor(st.doc, st.sel, <<Elem("BR", << >>)>>)
    IN  IF disabled THEN st
        ELSE onInput([st EXCEPT !.doc = r.doc, !.sel = r.sel])

\* onKeydown(e) with a selection that is not collapsed and a cell found: the
\* range the handler deletes.  It selects the contents of the cell, and its
\* start (its end) is moved to the start (the end) of the selection when the
\* cell contains that boundary point and it lies further in.
safeRange(d, s, cell) ==
    LET orig == getRangeAt(s)
        whole == selectNodeContents(d, cell)
    IN  [start |-> IF IsPrefix(cell, orig.start.node) /\ PointBefore(whole.anchor, orig.start)
                   THEN orig.start ELSE whole.anchor,
         end |-> IF IsPrefix(cell, orig.end.node) /\ PointBefore(orig.end, whole.focus)
                 THEN orig.end ELSE whole.focus]

\* onKeydown(e) for Backspace or Delete with such a selection: the safe range
\* is deleted, the cursor goes to the start of the cell
onDeleteKey(st) ==
    LET cell == KeyCell(st.doc, st.sel)
    IN  IF disabled THEN st
        ELSE onInput([st EXCEPT
                 !.doc = InsertInRange(@, safeRange(st.doc, st.sel, cell), << >>),
                 !.sel = Collapsed(Point(cell, 0))])

\* onKeydown(e) for a printable character, no modifier, with such a
\* selection: the safe range is deleted, a text node holding the character
\* is appended to the cell, the cursor goes after it
charAppended(d, cell, r, ch) ==
    LET cut == InsertInRange(d, r, << >>)
    IN  [doc |-> SetKids(cut, cell, NodeAt(cut, cell).kids \o <<Text(<<ch>>)>>),
         sel |-> Collapsed(Point(cell, Len(NodeAt(cut, cell).kids) + 1))]
onCharKey(st, ch) ==
    LET cell == KeyCell(st.doc, st.sel)
        r == charAppended(st.doc, cell, safeRange(st.doc, st.sel, cell), ch)
    IN  IF disabled THEN st
        ELSE onInput([st EXCEPT !.doc = r.doc, !.sel = r.sel])

\* the table of the tree at path tp, as the table operations see it: the
\* rows of its head and of its body, a cell with its tag and its children
RowCells(tr) ==
    [j \in 1..Len(SelectSeq(tr.kids, IsCellTag)) |->
        Cell(SelectSeq(tr.kids, IsCellTag)[j].tag, SelectSeq(tr.kids, IsCellTag)[j].kids)]
SectionRows(tn, tag) ==
    LET secs == SelectSeq(tn.kids, LAMBDA k : k.tag = tag)
        trs == SelectSeq(secs[1].kids, LAMBDA k : k.tag = "TR")
    IN  IF secs = << >> THEN << >> ELSE [i \in 1..Len(trs) |-> RowCells(trs[i])]
TreeTable(tn) ==
    [head |-> SectionRows(tn, "THEAD"), body |-> SectionRows(tn, "TBODY"),
     hasBody |-> \E i \in 1..Len(tn.kids) : tn.kids[i].tag = "TBODY"]
\* and the tree of a table: a cell the operations created holds their text
CellNode(c) ==
    IF c.tag = "td" THEN Elem("TD", <<Text(<<"&nbsp;">>)>>)
    ELSE IF c.tag = "th" THEN Elem("TH", <<Text(<<"Header">>)>>)
    ELSE Elem(c.tag, c.text)
RowNodes(rows) ==
    [i \in 1..Len(rows) |-> Elem("TR", [j \in 1..Len(rows[i]) |-> CellNode(rows[i][j])])]
TableNode(t) ==
    Elem("TABLE", <<Elem("THEAD", RowNodes(t.head))>>
                  \o (IF t.hasBody THEN <<Elem("TBODY", RowNodes(t.body))>> ELSE << >>))
\* the path of a cell in TableNode(t) put at tp
CellPath(tp, cell) == tp \o <<IF cell.sec = "THEAD" THEN 1 ELSE 2, cell.row, cell.col + 1>>
\* the table above the cell at path p, and the cell as the operations name it
TableAbove(d, p) ==
    SubSeq(p, 1, Max({k \in 0..Len(p) : NodeAt(d, SubSeq(p, 1, k)).tag = "TABLE"}))
CellNamed(d, p) ==
    CellAt(NodeAt(d, SubSeq(p, 1, Len(p) - 2)).tag,
           Cardinality({i \in 1..p[Len(p) - 1] :
                           NodeAt(d, SubSeq(p, 1, Len(p) - 2)).kids[i].tag = "TR"}),
           Cardinality({j \in 1..p[Len(p)] :
                           IsCellTag(NodeAt(d, Parent(p)).kids[j])}) - 1)

\* TableControls: the cell its selectionchange handler holds as active
activeCell(st) ==
    IF disabled \/ st.sel \in {NoSelection, OutsideSelection} THEN NoNode
    ELSE findClosestCell(st.doc, st.sel.anchor.node, st.sel.anchor.offset)

\* onAddRowAbove ... onRemoveColumn on the table t with the active cell
\* named at: the table the operation leaves, whether the handler goes on to
\* focusCellAndEmit (removeRow and removeColumn must return true), and the
\* cell it focuses (the first cell of the new row; of the next row, or else
\* of the previous one; the active cell; the cell at the same index or the
\* last one)
TableControlNames ==
    {"addRowAbove", "addRowBelow", "removeRow", "addColumnLeft", "addColumnRight",
     "removeColumn", "deleteTable"}
tableOperation(name, t, at) ==
    CASE name = "addRowAbove" -> addRowAbove(t, at)
      [] name = "addRowBelow" -> addRowBelow(t, at)
      [] name = "removeRow" -> removeRow(t, at)
      [] name = "addColumnLeft" -> addColumnLeft(t, at)
      [] name = "addColumnRight" -> addColumnRight(t, at)
      [] name = "removeColumn" -> removeColumn(t, at)
      [] OTHER -> [table |-> t, ret |-> "true"]
focusedCell(name, t, at) ==
    CASE name = "addRowAbove" -> CellAt("TBODY", IF at.sec = "THEAD" THEN 1 ELSE at.row, 0)
      [] name = "addRowBelow" ->
             CellAt("TBODY", IF at.sec = "THEAD" THEN 1 ELSE at.row + 1, 0)
      [] name = "removeRow" ->
             CellAt(at.sec, IF at.row < Len(Rows(t, at.sec)) THEN at.row ELSE at.row - 1, 0)
      [] name = "addColumnLeft" -> CellAt(at.sec, at.row, at.col + 1)
      [] name = "removeColumn" ->
             CellAt(at.sec, at.row, Min(at.col, Len(Rows(t, at.sec)[at.row]) - 2))
      [] OTHER -> at
\* focusCellAndEmit(cell): the cursor goes to the start of the cell when
\* there is one, and 'change' reaches WysiwygEditor's onInput.  With no cell
\* to focus the selection is left alone: after a removeColumn that took the
\* only cell of the active row, the browser has moved the range that was
\* inside the removed cell to its place in the row.
\* onDeleteTable puts an empty paragraph in the table's place, the cursor in
\* it, and emits 'change' too.
focusCellAndEmit(st, name, tp, r, cell) ==
    IF r.ret = "false" THEN st
    ELSE onInput([st EXCEPT
             !.doc = ReplaceAt(@, tp, IF name = "deleteTable"
                                      THEN <<Elem("P", <<Elem("BR", << >>)>>)>>
                                      ELSE <<TableNode(r.table)>>),
             !.sel = IF name = "deleteTable" THEN Collapsed(Point(tp, 0))
                     ELSE IF InTable(r.table, cell)
                     THEN Collapsed(Point(CellPath(tp, cell), 0))
                     ELSE IF name = "removeColumn"
                     THEN Collapsed(Point(Parent(CellPath(tp, cell)), 0))
                     ELSE @])
tableControlOn(st, name, tp, t, at) ==
    focusCellAndEmit(st, name, tp, tableOperation(name, t, at), focusedCell(name, t, at))
tableControlAt(st, name, cell) ==
    tableControlOn(st, name, TableAbove(st.doc, cell),
                   TreeTable(NodeAt(st.doc, TableAbove(st.doc, cell))),
                   CellNamed(st.doc, cell))
tableControl(st, name) ==
    IF activeCell(st) = NoNode THEN st ELSE tableControlAt(st, name, activeCell(st))

\* a character typed into the editable element: the browser puts it at the
\* cursor and fires 'input'
onTyped(st, ch) ==
    LET r == insertHtmlAtCursor(st.doc, st.sel, <<Text(<<ch>>)>>)
    IN  onInput([st EXCEPT !.doc = r.doc, !.sel = r.sel])

\* the callback of the re-highlight timer: rehighlightCurrentBlock() puts
\* the highlighted markup of the code block under the cursor in place of its
\* text, which leaves what the block serializes to as it was
highlightTimerFired(st) == [st EXCEPT !.highlightTimer = @ - 1]

\* A gesture of the user or the host, or a step of the event loop, leaves the
\* state st.  gesture, ePre, emitted and invoked record what was done, what
\* it started from, what it emitted and what it called.
GestureWithin(limit, kind, name, st) ==
    /\ ops < limit
    /\ sel # OutsideSelection
    /\ doc' = st.doc
    /\ sel' = st.sel
    /\ activeTags' = st.activeTags
    /\ modelValue' = st.modelValue
    /\ currentMode' = st.currentMode
    /\ mode' = st.mode
    /\ selectionStart' = st.selectionStart
    /\ selectionEnd' = st.selectionEnd
    /\ inputTimer' = st.inputTimer
    /\ highlightTimer' = st.highlightTimer
    /\ structuralMds' = IF kind = "table" /\ st.modelValue # modelValue
                        THEN Append(structuralMds, st.modelValue)
                        ELSE structuralMds
    /\ undoStack' = st.undoStack
    /\ redoStack' = st.redoStack
    /\ timers' = st.timers
    /\ debounceTimer' = st.debounceTimer
    /\ emitted' = st.emitted
    /\ invoked' = st.invoked
    /\ gesture' = [kind |-> kind, name |-> name]
    /\ ePre' = [doc |-> doc, sel |-> sel, modelValue |-> modelValue,
                undoStack |-> undoStack, redoStack |-> redoStack,
                currentMode |-> currentMode,
                inputTimer |-> inputTimer, highlightTimer |-> highlightTimer]
    /\ ops' = ops + 1
    /\ UNCHANGED <<maxDepth, now, lastOp, arg, ret, pre,
                   burstN, burstAt, burstMd, burstApp>>
    /\ UNCHANGED <<tvars, pvars, uvars, disabled, highlightProp, cLastOp, cPre>>

Gesture(kind, name, st) == GestureWithin(MaxOps, kind, name, st)

Modes == {"wysiwyg", "markdown"}
\* what prompt() may return: nothing, or a URL
Prompted == {NULL, "u"}
\* what the clipboard may hold
Clipboard == {<<"z">>, <<"z", "\n", "w">>}

\* a toolbar button or a context command dispatches an action name
ToolbarAction ==
    \E name \in ActionNames, input \in Prompted :
        /\ (name \notin {"link", "image"} \/ currentMode = "markdown") => input = NULL
        /\ Gesture("toolbar", name, handleToolbarAction(Here, name, input))

\* the mode button and the context's toggleMode (the button is inert while
\* the editor is disabled, the context command is not)
ToggleMode == Gesture("context", "toggleMode", toggleMode(Here))

\* the host changes the mode prop
SetMode == \E m \in Modes : m # mode /\ Gesture("host", "mode", watchMode(Here, m))

\* the host changes the disabled prop
SetDisabled ==
    /\ sel # OutsideSelection
    /\ disabled' = ~disabled
    /\ gesture' = [kind |-> "host", name |-> "disabled"]
    /\ invoked' = "none"
    /\ emitted' = << >>
    /\ ePre' = [doc |-> doc, sel |-> sel, modelValue |-> modelValue,
                undoStack |-> undoStack, redoStack |-> redoStack,
                currentMode |-> currentMode,
                inputTimer |-> inputTimer, highlightTimer |-> highlightTimer]
    /\ UNCHANGED <<hvars, tvars, cvars, pvars, uvars, currentMode, mode, modelValue,
                   selectionStart, selectionEnd, inputTimer, highlightProp, highlightTimer,
                   structuralMds>>

\* the context's undo and redo, and the component's exposed ones
ContextUndo == Gesture("context", "undo", doUndo(Here))
ContextRedo == Gesture("context", "redo", doRedo(Here))

\* the user pastes into the editable element (shown in wysiwyg mode)
Paste ==
    /\ currentMode = "wysiwyg"
    /\ \E text \in Clipboard : Gesture("paste", "paste", onPaste(Here, text))

\* the input timer runs out
InputTimer ==
    /\ inputTimer > 0
    /\ LET st == inputTimerFired(Here)
       IN  /\ doc' = st.doc
           /\ sel' = st.sel
           /\ modelValue' = st.modelValue
           /\ selectionStart' = st.selectionStart
           /\ selectionEnd' = st.selectionEnd
           /\ inputTimer' = st.inputTimer
           /\ timers' = st.timers
           /\ debounceTimer' = st.debounceTimer
           /\ emitted' = st.emitted
           /\ invoked' = "none"
           /\ gesture' = [kind |-> "timer", name |-> "input"]
           /\ ePre' = [doc |-> doc, sel |-> sel, modelValue |-> modelValue,
                       undoStack |-> undoStack, redoStack |-> redoStack,
                       currentMode |-> currentMode,
                inputTimer |-> inputTimer, highlightTimer |-> highlightTimer]
    /\ UNCHANGED <<maxDepth, undoStack, redoStack, now, lastOp, arg, ret, pre,
                   burstN, burstAt, burstMd, burstApp>>
    /\ UNCHANGED <<tvars, pvars, uvars, disabled, cLastOp, cPre, activeTags, ops, currentMode,
                   mode, highlightProp, highlightTimer, structuralMds>>

\* Tab, Shift+Tab and Enter pressed with the selection in a table cell
Tab ==
    /\ currentMode = "wysiwyg"
    /\ KeyCell(doc, sel) # NoNode
    /\ Gesture("key", "Tab", onTab(Here, FALSE))
ShiftTab ==
    /\ currentMode = "wysiwyg"
    /\ KeyCell(doc, sel) # NoNode
    /\ Gesture("key", "Shift+Tab", onTab(Here, TRUE))
Enter ==
    /\ currentMode = "wysiwyg"
    /\ KeyCell(doc, sel) # NoNode
    /\ Gesture("key", "Enter", onEnter(Here))

\* Backspace or Delete, and a printable character, pressed with a selection
\* that is not collapsed and a cell found for it
DeleteKey ==
    /\ currentMode = "wysiwyg"
    /\ sel # NoSelection
    /\ ~isCollapsed(sel)
    /\ KeyCell(doc, sel) # NoNode
    /\ Gesture("key", "Delete", onDeleteKey(Here))
CharKey ==
    /\ currentMode = "wysiwyg"
    /\ sel # NoSelection
    /\ ~isCollapsed(sel)
    /\ KeyCell(doc, sel) # NoNode
    /\ Gesture("key", "char", onCharKey(Here, "z"))

EditorNext ==
    \/ ToolbarAction
    \/ ToggleMode
    \/ SetMode
    \/ SetDisabled
    \/ ContextUndo
    \/ ContextRedo
    \/ Paste
    \/ InputTimer

\* the user types a character in the editable element
Typed ==
    /\ currentMode = "wysiwyg"
    /\ ~disabled
    /\ sel # NoSelection
    /\ GestureWithin(MaxEvents, "input", "typed", onTyped(Here, "z"))

\* the user presses a button of the table controls
TableControl ==
    /\ currentMode = "wysiwyg"
    /\ \E name \in TableControlNames :
          GestureWithin(MaxEvents, "table", name, tableControl(Here, name))

\* a toolbar button pressed between two keystrokes
QuickToolbar ==
    GestureWithin(MaxEvents, "toolbar", "bold", handleToolbarAction(Here, "bold", NULL))

\* the mode button pressed between two keystrokes
QuickToggle == GestureWithin(MaxEvents, "context", "toggleMode", toggleMode(Here))

\* the re-highlight timer runs out
HighlightTimer ==
    /\ highlightTimer > 0
    /\ highlightTimer' = highlightTimerFired(Here).highlightTimer
    /\ gesture' = [kind |-> "timer", name |-> "highlight"]
    /\ invoked' = "none"
    /\ emitted' = << >>
    /\ ePre' = [doc |-> doc, sel |-> sel, modelValue |-> modelValue,
                undoStack |-> undoStack, redoStack |-> redoStack,
                currentMode |-> currentMode,
                inputTimer |-> inputTimer, highlightTimer |-> highlightTimer]
    /\ UNCHANGED <<hvars, tvars, cvars, pvars, uvars, currentMode, mode, modelValue,
                   selectionStart, selectionEnd, inputTimer, highlightProp, disabled,
                   structuralMds>>

\* the history engine's debounce timer runs out: its callback pushes the
\* markdown it was set with
HistoryTimer ==
    \E tm \in timers :
        /\ now >= tm.due
        /\ undoStack' = _push(undoStack, redoStack, maxDepth, tm.markdown, now).undoStack
        /\ redoStack' = _push(undoStack, redoStack, maxDepth, tm.markdown, now).redoStack
        /\ timers' = timers \ {tm}
        /\ UNCHANGED <<maxDepth, debounceTimer, now, lastOp, arg, ret, pre,
                       burstN, burstAt, burstMd, burstApp>>
        /\ UNCHANGED <<tvars, cvars, evars, pvars, uvars>>

\* nothing happens until the history engine's timer is due
Idle ==
    /\ \E tm \in timers : now < tm.due /\ tm.due <= MaxTime /\ now' = tm.due
    /\ UNCHANGED <<maxDepth, undoStack, redoStack, debounceTimer, timers,
                   lastOp, arg, ret, pre, burstN, burstAt, burstMd, burstApp>>
    /\ UNCHANGED <<tvars, cvars, evars, pvars, uvars>>

SyncNext ==
    \/ Typed
    \/ TableControl
    \/ QuickToolbar
    \/ QuickToggle
    \/ InputTimer
    \/ HighlightTimer
    \/ HistoryTimer
    \/ Idle

KeyNext ==
    \/ Tab
    \/ ShiftTab
    \/ Enter
    \/ InputTimer

\* The markdown the host may hand the editor: emphasis written with
\* underscores, a one-column table, a list of two items, nothing.
EditorMarkdown ==
    {<<"a", "_", "b", "_">>,
     <<"|", " ", "h", " ", "|", "\n", "|", " --- ", "|", "\n", "|", " ", "x", " ", "|">>,
     <<"- ", "a", "\n", "- ", "b">>,
     << >>}

\* the text nodes of d that show something
TextLeaves(d) ==
    {p \in Paths(d) : IsText(NodeAt(d, p)) /\ ~IsBlank(NodeAt(d, p).text)}

\* the component mounted on markdown md in mode m: the history holds md, the
\* tree is the rendering of md (onMounted)
Mounted(md, d, s, depth, m, dis) ==
    /\ maxDepth = depth
    /\ undoStack = <<HistoryEntry(md, 0)>>
    /\ redoStack = << >>
    /\ debounceTimer = NullTimer
    /\ timers = {}
    /\ now = 0
    /\ lastOp = "init"
    /\ arg = NULL
    /\ ret = NullEntry
    /\ pre = [undoStack |-> << >>, redoStack |-> << >>, lastOp |-> "new"]
    /\ burstN = 0
    /\ burstAt = 0
    /\ burstMd = NULL
    /\ burstApp = 0
    /\ NoTable
    /\ NewDocument(d, s)
    /\ NewEditor(m, dis, md)
    /\ NoPure
    /\ NoComposable

\* mounted on one of EditorMarkdown, the selection nowhere, or over the
\* whole of a text, or a cursor at its start
EditorInit ==
    \E md \in EditorMarkdown, depth \in {1, MaxDepthCfg}, m \in Modes, dis \in BOOLEAN :
        LET d == EditorEl(parseMarkdown(md))
        IN  /\ highlightProp = FALSE
            /\ \E s \in {NoSelection}
                     \cup {selectNodeContents(d, p) : p \in TextLeaves(d)}
                     \cup {Collapsed(Point(p, 0)) : p \in TextLeaves(d)} :
                Mounted(md, d, s, depth, m, dis)

EditorSpec == EditorInit /\ [][EditorNext]_vars

\* mounted in wysiwyg mode on the markdown of a document with a table, any
\* selection the tree admits
KeyInit ==
    \E d \in Documents, dis \in BOOLEAN :
        /\ \E p \in Paths(d) : NodeAt(d, p).tag = "TABLE"
        /\ highlightProp = FALSE
        /\ \E a \in Points(d), f \in Points(d) :
               Mounted(serializeHtml(d), d, Selection(a, f), MaxDepthCfg, "wysiwyg", dis)

KeySpec == KeyInit /\ [][KeyNext]_vars

\* mounted in wysiwyg mode on a table of two columns whose first body cell
\* holds a text of three characters, any selection the tree admits
CellKeyDocument ==
    EditorEl(<<Elem("TABLE",
        <<Elem("THEAD", <<Elem("TR", <<Elem("TH", <<Text(<<"h">>)>>),
                                       Elem("TH", <<Text(<<"k">>)>>)>>)>>),
          Elem("TBODY", <<Elem("TR", <<Elem("TD", <<Text(<<"a", "b", "c">>)>>),
                                       Elem("TD", <<Text(<<"y">>)>>)>>)>>)>>)>>)
CellKeyInit ==
    /\ highlightProp = FALSE
    /\ \E a \in Points(CellKeyDocument), f \in Points(CellKeyDocument) :
           Mounted(serializeHtml(CellKeyDocument), CellKeyDocument, Selection(a, f),
                   MaxDepthCfg, "wysiwyg", FALSE)

CellKeyNext ==
    \/ DeleteKey
    \/ CharKey

CellKeySpec == CellKeyInit /\ [][CellKeyNext]_vars

\* mounted in wysiwyg mode on a table of one column, the cursor in its
\* header cell or its body cell, with a highlight function or without
SyncInit ==
    \E md \in {<<"|", " ", "h", " ", "|", "\n", "|", " --- ", "|", "\n",
                 "|", " ", "x", " ", "|">>} :
        LET d == EditorEl(parseMarkdown(md))
        IN  /\ highlightProp \in BOOLEAN
            /\ \E p \in TextLeaves(d) :
                   Mounted(md, d, Collapsed(Point(p, 0)), MaxDepthCfg, "wysiwyg", FALSE)

SyncSpec == SyncInit /\ [][SyncNext]_vars

\* The table controls on any table the editor can hold.  A table rendered
\* from markdown has rows of one width and no tbody when it has no body
\* row; a pasted table may have rows of unequal width.  The component is
\* mounted in wysiwyg mode, the tree holding a table of one header row of hw
\* cells and n body rows of bw cells, then a paragraph; the cursor is at the
\* start of one of the texts.
FocusTable(hw, n, bw) ==
    Elem("TABLE",
         <<Elem("THEAD", <<Elem("TR", [j \in 1..hw |->
                                Elem("TH", <<Text(<<HeadText[j]>>)>>)])>>)>>
         \o (IF n = 0 THEN << >>
             ELSE <<Elem("TBODY", [i \in 1..n |->
                        Elem("TR", [j \in 1..bw |->
                            Elem("TD", <<Text(<<BodyText[i][j]>>)>>)])])>>))

FocusInit ==
    \E hw \in Widths, n \in 0..MaxBodyRows, bw \in Widths :
        LET d == EditorEl(<<FocusTable(hw, n, bw), Elem("P", <<Text(<<"z">>)>>)>>)
        IN  /\ highlightProp = FALSE
            /\ \E p \in TextLeaves(d) :
                   Mounted(serializeHtml(d), d, Collapsed(Point(p, 0)),
                           MaxDepthCfg, "wysiwyg", FALSE)

FocusNext == TableControl

FocusSpec == FocusInit /\ [][FocusNext]_vars

\* A timeout that is pending runs out in the end.  The steps that take a
\* callback off a timer are the steps of InputTimer and of HighlightTimer,
\* and no others.
InputTimerRuns == inputTimer > 0 /\ inputTimer' = inputTimer - 1
HighlightTimerRuns == highlightTimer > 0 /\ highlightTimer' = highlightTimer - 1
LiveSpec ==
    SyncSpec /\ WF_inputTimer(InputTimerRuns) /\ WF_highlightTimer(HighlightTimerRuns)

(* ------------------------ the composable useMarkdown -------------------- *)

\* useMarkdown keeps the element editorRef (doc, with the cursor sel), the
\* ref modelValue, the timer serializeTimer (inputTimer counts its pending
\* callbacks) and the flag isSyncing.  A change of modelValue queues the
\* callback of watch(modelValue, ...), which Vue runs after the code that
\* made the change has returned: watching says that it is queued, invoked
\* who made the change ("emit": the composable's own emit, "host": the
\* host), rerendered whether the callback's last run replaced the tree.
\* isSyncing is set and reset within one callback, so that it is reset
\* whenever a step begins.
\* A step of the composable leaves the tree d with the cursor s, the model
\* value md, timer callbacks pending and out emitted.
Composed(kind, name, d, s, md, timer, out, origin, replaced) ==
    /\ doc' = d
    /\ sel' = s
    /\ modelValue' = md
    /\ inputTimer' = timer
    /\ emitted' = out
    /\ invoked' = origin
    /\ watching' = IF kind = "watch" THEN FALSE ELSE md # modelValue
    /\ rerendered' = replaced
    /\ isSyncing' = FALSE
    /\ gesture' = [kind |-> kind, name |-> name]
    /\ ops' = IF kind \in {"timer", "watch"} THEN ops ELSE ops + 1
    /\ UNCHANGED <<hvars, tvars, pvars, activeTags, cLastOp, cPre, currentMode, mode,
                   disabled, selectionStart, selectionEnd, ePre, highlightProp,
                   highlightTimer, structuralMds>>

\* emit(md): the host takes the value into modelValue, or leaves it
Adopted(md) == {md, modelValue}

\* a character typed in the element, and handleInput()
handleInput ==
    /\ ~watching
    /\ ops < MaxEvents
    /\ sel # NoSelection
    /\ Composed("input", "handleInput",
                insertHtmlAtCursor(doc, sel, <<Text(<<"z">>)>>).doc,
                insertHtmlAtCursor(doc, sel, <<Text(<<"z">>)>>).sel,
                modelValue,
                IF isSyncing THEN inputTimer ELSE restarted(inputTimer),
                << >>, invoked, FALSE)

\* the callback of serializeTimer: isSyncing is set, the tree is serialized
\* and emitted, isSyncing is reset
serializeTimerFired ==
    /\ ~watching
    /\ inputTimer > 0
    /\ \E md \in Adopted(serializeHtml(doc)) :
           Composed("timer", "serialize", doc, sel, md, inputTimer - 1,
                    <<serializeHtml(doc)>>, "emit", FALSE)

\* syncNow(): the pending serialization is cancelled, the tree is serialized
\* and emitted with isSyncing set
syncNow ==
    /\ ~watching
    /\ ops < MaxEvents
    /\ \E md \in Adopted(serializeHtml(doc)) :
           Composed("call", "syncNow", doc, sel, md, cleared(inputTimer),
                    <<serializeHtml(doc)>>, "emit", FALSE)

\* refreshHtml(): the tree is rendered from modelValue with isSyncing set
refreshHtml ==
    /\ ~watching
    /\ ops < MaxEvents
    /\ Composed("call", "refreshHtml", EditorEl(parseMarkdown(modelValue)),
                IF sel = NoSelection THEN sel ELSE Collapsed(Point(<< >>, 0)),
                modelValue, inputTimer, << >>, invoked, FALSE)

\* the host gives modelValue another value
HostMarkdown == {<<"a">>, <<"# ", "a">>, <<"**", "a", "**">>}
HostSets ==
    /\ ~watching
    /\ ops < MaxEvents
    /\ \E md \in HostMarkdown \ {modelValue} :
           Composed("host", "modelValue", doc, sel, md, inputTimer, << >>, "host", FALSE)

\* the callback of watch(modelValue, ...): unless isSyncing is set, the tree
\* is rendered from the new value
watchModelValue ==
    /\ watching
    /\ Composed("watch", "modelValue",
                IF isSyncing THEN doc ELSE EditorEl(parseMarkdown(modelValue)),
                IF isSyncing \/ sel = NoSelection THEN sel
                ELSE Collapsed(Point(<< >>, 0)),
                modelValue, inputTimer, << >>, invoked, ~isSyncing)

ComposableNext ==
    \/ handleInput
    \/ serializeTimerFired
    \/ syncNow
    \/ refreshHtml
    \/ HostSets
    \/ watchModelValue

\* useMarkdown() called with the element mounted: the watcher is immediate,
\* the tree is rendered from modelValue; the user has put the cursor in a
\* text
ComposableInit ==
    /\ NewHistory(MaxDepthCfg)
    /\ NoTable
    /\ NoPure
    /\ NoComposable
    /\ highlightProp = FALSE
    /\ \E md \in HostMarkdown :
          /\ NewEditor("wysiwyg", FALSE, md)
          /\ \E p \in TextLeaves(EditorEl(parseMarkdown(md))) :
                 NewDocument(EditorEl(parseMarkdown(md)), Collapsed(Point(p, 0)))

ComposableSpec == ComposableInit /\ [][ComposableNext]_vars

(* --------------------------- specifications ---------------------------- *)

(* --------------------------- fence renderer ---------------------------- *)

\* HTML text as a sequence of characters; a word, a tag opening such as
\* "<div", a closing tag and a character reference are one character each.
\* The characters an info string is made of: a letter and the ones that mean
\* something to an HTML parser.
InfoChars == {"a", "\"", "'", " ", "=", "<", ">", "&"}
Infos == UNION {[1..n -> InfoChars] : n \in 0..MaxInfo}

\* str.replace(/c/g, to)
ReplaceAll(str, c, to) == [i \in 1..Len(str) |-> IF str[i] = c THEN to ELSE str[i]]

escapeHtmlStr(str) ==
    ReplaceAll(ReplaceAll(ReplaceAll(ReplaceAll(str, "&", "&amp;"), "<", "&lt;"),
                          ">", "&gt;"), "\"", "&quot;")
\* an escapeAttrStr that leaves the double quote
escapeAttrStrApostropheOnly(str) == ReplaceAll(str, "'", "&#39;")
escapeAttrStr(str) == ReplaceAll(ReplaceAll(str, "\"", "&quot;"), "'", "&#39;")

\* the language label of md.renderer.rules.fence
langLabel(lang) ==
    <<"<div", " ", "class", "=", "\"", "ce-code-lang", "\"", " ",
      "contenteditable", "=", "\"", "false", "\"", " ", "data-lang", "=", "\"">>
    \o lang \o <<"\"", ">">>
    \o escapeHtmlStr(IF lang = << >> THEN <<"plain text">> ELSE lang)
    \o <<"</div>">>

\* md.renderer.rules.fence for a token with the given info and content.
\* highlight is "none" when no highlight function was given, "empty" when it
\* returns '', "block" when it returns a <pre class="shiki"><code> block
\* (its content, which the highlighter escapes, is the character "hl").
fenceRuleAt(lang, code, highlight) ==
    IF highlight = "block" /\ lang # << >>
    THEN <<"<pre", " ", "class", "=", "\"", "shiki", "\"", ">">> \o langLabel(lang)
         \o <<"<code", " ", "class", "=", "\"", "language-">> \o escapeAttrStr(lang)
         \o <<"\"", ">", "hl", "</code>", "</pre>">>
    ELSE <<"<pre", ">">> \o langLabel(lang) \o <<"<code">>
         \o (IF lang # << >>
             THEN <<" ", "class", "=", "\"", "language-">> \o escapeAttrStr(lang)
                  \o <<"\"">>
             ELSE << >>)
         \o <<">">> \o escapeHtmlStr(code) \o <<"</code>", "</pre>", "\n">>
fenceRule(info, code, highlight) == fenceRuleAt(Trim(info), code, highlight)

\* What an HTML parser makes of the start tags of html: the elements in
\* document order, each with its attributes.  at is the tokenizer's state,
\* tags the elements found, the last one being the tag under way.  A name
\* that is there already adds no attribute: what follows goes to the last.
TagOpenings == {"<div", "<pre", "<code"}
IsWord(c) == c \notin {"\"", "'", " ", "=", "<", ">", "\n"} \cup TagOpenings
WithAttr(tags, name) ==
    [tags EXCEPT ![Len(tags)].attrs =
        IF \E i \in 1..Len(@) : @[i][1] = name THEN @ ELSE Append(@, <<name, << >>>>)]
\* the attribute under way is the last one unless its name was a duplicate
GrowName(tags, c) ==
    [tags EXCEPT ![Len(tags)].attrs[Len(tags[Len(tags)].attrs)][1] = @ \o c]
GrowValue(tags, c) ==
    [tags EXCEPT ![Len(tags)].attrs[Len(tags[Len(tags)].attrs)][2] = Append(@, c)]
\* one character c read by the tokenizer in the state t = [at, tags]
InData(tags, c) ==
    IF c \in TagOpenings
    THEN [at |-> "beforeName", tags |-> Append(tags, [tag |-> c, attrs |-> << >>])]
    ELSE [at |-> IF c = "<" THEN "tagOpen" ELSE "data", tags |-> tags]
TagStep(t, c) ==
    CASE t.at = "data" -> InData(t.tags, c)
      [] t.at = "tagOpen" ->
             IF c = "a"
             THEN [at |-> "tagName", tags |-> Append(t.tags, [tag |-> "<a", attrs |-> << >>])]
             ELSE InData(t.tags, c)
      [] t.at \notin {"data", "tagOpen", "double", "single"} /\ c = ">" ->
             [t EXCEPT !.at = "data"]
      [] t.at = "tagName" -> [t EXCEPT !.at = IF c = " " THEN "beforeName" ELSE @]
      [] t.at \in {"beforeName", "afterName", "afterValue"} /\ c # ">" ->
             IF c = " " THEN [t EXCEPT !.at = IF @ = "afterValue" THEN "beforeName" ELSE @]
             ELSE IF c = "=" /\ t.at = "afterName" THEN [t EXCEPT !.at = "beforeValue"]
             ELSE [at |-> "name", tags |-> WithAttr(t.tags, c)]
      [] t.at = "name" /\ c # ">" ->
             IF c = " " THEN [t EXCEPT !.at = "afterName"]
             ELSE IF c = "=" THEN [t EXCEPT !.at = "beforeValue"]
             ELSE [t EXCEPT !.tags = GrowName(@, c)]
      [] t.at = "beforeValue" /\ c # ">" ->
             IF c = " " THEN t
             ELSE IF c = "\"" THEN [t EXCEPT !.at = "double"]
             ELSE IF c = "'" THEN [t EXCEPT !.at = "single"]
             ELSE [at |-> "unquoted", tags |-> GrowValue(t.tags, c)]
      [] t.at = "double" ->
             IF c = "\"" THEN [t EXCEPT !.at = "afterValue"]
             ELSE [t EXCEPT !.tags = GrowValue(@, c)]
      [] t.at = "single" ->
             IF c = "'" THEN [t EXCEPT !.at = "afterValue"]
             ELSE [t EXCEPT !.tags = GrowValue(@, c)]
      [] t.at = "unquoted" /\ c # ">" ->
             IF c = " " THEN [t EXCEPT !.at = "beforeName"]
             ELSE [t EXCEPT !.tags = GrowValue(@, c)]
\* the tokenizer in the state t reads html[i..j]: the first half, and from
\* the state that leaves it in, the second
RECURSIVE TokenizedFrom(_, _, _, _)
TokenizedFrom(t, html, i, j) ==
    IF i > j THEN t
    ELSE IF i = j THEN TagStep(t, html[i])
    ELSE LET mid == (i + j) \div 2
             half == TokenizedFrom(t, html, i, mid)
         IN  IF half.at = "data" THEN TokenizedFrom(half, html, mid + 1, j)
             ELSE TokenizedFrom(half, html, mid + 1, j)
Tokenized(html, n) == TokenizedFrom([at |-> "data", tags |-> << >>], html, 1, n)
StartTags(html) == Tokenized(html, Len(html)).tags

\* a fenced block is rendered
Fence ==
    /\ pureOp = "none"
    /\ pureOut' = fenceRule(pureIn.info, pureIn.code, pureIn.highlight)
    /\ pureOp' = "fence"
    /\ UNCHANGED <<pureIn, hvars, tvars, cvars, evars, uvars>>

(* ---------------------------- sanitizeHtml ----------------------------- *)

\* The document DOMParser builds from pasted HTML.  A node is an element
\* (local name, namespace, attributes, children), a text node or a comment.
\* An element of the HTML namespace reports its tagName in upper case; an
\* element of the SVG namespace (svg and what the parser keeps inside it)
\* reports it as written.  The field inRemoved records, for the claims only,
\* that the node lies inside an element of a removed family.
MaxNest == 2

UpperCase(name) ==
    CASE name = "script" -> "SCRIPT"
      [] name = "p" -> "P"
      [] name = "a" -> "A"
      [] name = "svg" -> "SVG"
      [] OTHER -> name
tagName(el) == IF el.ns = "html" THEN UpperCase(el.name) ELSE el.name

REMOVE_WITH_CONTENT ==
    {"SCRIPT", "STYLE", "IFRAME", "OBJECT", "EMBED", "APPLET", "FORM", "INPUT",
     "TEXTAREA", "SELECT", "BUTTON", "LINK", "META", "NOSCRIPT"}
ALLOWED_ATTRS ==
    {"href", "src", "alt", "title", "width", "height", "colspan", "rowspan", "class"}

\* attribute values, in pieces: "java" "script:" spells javascript:
UrlValues ==
    { <<"http:", "x">>, <<"java", "script:", "x">>, <<" ", "Java", "script:", "x">>,
      <<"java", "\t", "script:", "x">>, <<"data:text/html", "x">> }
PastedAttrs ==
    {[name |-> n, value |-> <<"x">>] : n \in {"onclick", "style", "id", "class"}}
    \cup {[name |-> "href", value |-> v] : v \in UrlValues}
AttrLists == {<< >>} \cup {<<a>> : a \in PastedAttrs}

DomText(inRemoved) == [kind |-> "text", inRemoved |-> inRemoved]
DomComment(inRemoved) == [kind |-> "comment", inRemoved |-> inRemoved]
DomElement(name, ns, attrs, kids, inRemoved) ==
    [kind |-> "element", name |-> name, ns |-> ns, attrs |-> attrs, kids |-> kids,
     inRemoved |-> inRemoved]

\* the elements of one name over the given lists of children
ElementsOf(name, ns, kidLists, inRemoved) ==
    {DomElement(name, ns, attrs, kids, inRemoved) : attrs \in AttrLists, kids \in kidLists}
OneOf(nodes) == {<< >>} \cup {<<k>> : k \in nodes}
\* what the parser builds below a node: foreign is whether the parent is in
\* the SVG namespace, raw whether it is an HTML script (text content only)
RECURSIVE Parsed(_, _, _, _)
Parsed(depth, foreign, raw, inRemoved) ==
    {DomText(inRemoved)}
    \cup (IF raw THEN {} ELSE {DomComment(inRemoved)})
    \cup (IF raw \/ depth = 0 THEN {}
          ELSE IF foreign
          THEN ElementsOf("script", "svg", OneOf(Parsed(depth - 1, TRUE, FALSE, TRUE)), inRemoved)
               \cup ElementsOf("a", "svg", OneOf(Parsed(depth - 1, TRUE, FALSE, inRemoved)), inRemoved)
          ELSE ElementsOf("script", "html", OneOf(Parsed(depth - 1, FALSE, TRUE, TRUE)), inRemoved)
               \cup ElementsOf("p", "html", OneOf(Parsed(depth - 1, FALSE, FALSE, inRemoved)), inRemoved)
               \cup ElementsOf("a", "html", OneOf(Parsed(depth - 1, FALSE, FALSE, inRemoved)), inRemoved)
               \cup ElementsOf("svg", "svg", OneOf(Parsed(depth - 1, TRUE, FALSE, inRemoved)), inRemoved))

\* String.prototype.trim and toLowerCase, on pieces
TrimValue(v) ==
    LET keep == {i \in 1..Len(v) : v[i] \notin {" ", "\t"}}
    IN  IF keep = {} THEN << >>
        ELSE SubSeq(v, CHOOSE i \in keep : \A j \in keep : i <= j,
                       CHOOSE i \in keep : \A j \in keep : i >= j)
LowerCase(v) == [i \in 1..Len(v) |-> IF v[i] = "Java" THEN "java" ELSE v[i]]
startsWithJavascript(v) == Len(v) >= 2 /\ v[1] = "java" /\ v[2] = "script:"
startsWithDataHtml(v) == Len(v) >= 1 /\ v[1] = "data:text/html"

\* name.startsWith('on'), over the attribute names pasted here
startsWithOn(name) == name \in {"onclick"}
\* the attribute loop of cleanNode: whether attr stays on the element
keepsAttr(attr) ==
    LET val == LowerCase(TrimValue(attr.value))
    IN  /\ ~startsWithOn(attr.name)
        /\ attr.name # "style"
        /\ attr.name \in ALLOWED_ATTRS
        /\ ~(attr.name \in {"href", "src"}
             /\ (startsWithJavascript(val) \/ startsWithDataHtml(val)))
cleanAttrs(attrs) == SelectSeq(attrs, keepsAttr)

\* cleanNode on a list of children
RECURSIVE cleanNode(_)
cleanChild(child) ==
    IF child.kind = "element"
    THEN IF tagName(child) \in REMOVE_WITH_CONTENT THEN << >>
         ELSE << [child EXCEPT !.attrs = cleanAttrs(@), !.kids = cleanNode(@)] >>
    ELSE IF child.kind = "comment" THEN << >>
    ELSE <<child>>
cleanNode(children) ==
    IF children = << >> THEN << >>
    ELSE cleanChild(children[1]) \o cleanNode(Tail(children))

\* doc.body.innerHTML: the start tags, texts and comments of the tree in
\* document order (end tags carry nothing the claims read)
RECURSIVE bodyInnerHTML(_)
bodyInnerHTML(children) ==
    IF children = << >> THEN << >>
    ELSE LET c == children[1]
         IN  (IF c.kind = "element"
              THEN <<[c EXCEPT !.kids = << >>]>> \o bodyInnerHTML(c.kids)
              ELSE <<c>>) \o bodyInnerHTML(Tail(children))

sanitizeHtml(body) == bodyInnerHTML(cleanNode(body))

\* pasted HTML is sanitised
Sanitize ==
    /\ pureOp = "none"
    /\ pureOut' = sanitizeHtml(pureIn)
    /\ pureOp' = "sanitize"
    /\ UNCHANGED <<pureIn, hvars, tvars, cvars, evars, uvars>>

HistoryInit ==
    /\ \E md \in 1..MaxDepthCfg : NewHistory(md)
    /\ NoDocument
    /\ NoTable
    /\ NoEditor
    /\ NoPure
    /\ NoComposable

HistorySpec == HistoryInit /\ [][HistoryNext]_vars

TableInit ==
    /\ NewHistory(MaxDepthCfg)
    /\ NoDocument
    /\ NoEditor
    /\ NoPure
    /\ NoComposable
    /\ \E hw \in Widths, hasBody \in BOOLEAN, n \in 0..MaxBodyRows, bw \in Widths :
          /\ (~hasBody => n = 0)
          /\ NewTable(StartTable(hw, hasBody, n, bw))

\* The table controls' enabling conditions against the operations they guard.
\* The table under the cursor is any table the editor's DOM can hold: besides
\* the tables of TableInit, a pasted table whose rows below the header lie in
\* a tfoot and that has no tbody (sanitizeHtml keeps the tfoot, onPaste
\* inserts it); such a table has hasBody = FALSE and its rows outside the
\* thead in body.
ControlInit ==
    /\ NewHistory(MaxDepthCfg)
    /\ NoDocument
    /\ NoEditor
    /\ NoPure
    /\ NoComposable
    /\ \E hw \in Widths, hasBody \in BOOLEAN, n \in 0..MaxBodyRows, bw \in Widths :
          NewTable(StartTable(hw, hasBody, n, bw))

ControlNext ==
    \/ RemoveRow
    \/ RemoveColumn

ControlSpec == ControlInit /\ [][ControlNext]_vars

TableSpec == TableInit /\ [][TableNext]_vars

\* a document of Documents with any selection the tree admits, or none
CommandInit ==
    /\ NewHistory(MaxDepthCfg)
    /\ NoTable
    /\ NoEditor
    /\ NoPure
    /\ NoComposable
    /\ \E d \in Documents :
          \/ NewDocument(d, NoSelection)
          \/ \E a \in Points(d), f \in Points(d) : NewDocument(d, Selection(a, f))

CommandSpec == CommandInit /\ [][CommandNext]_vars

\* Documents of the supported subset, in their usual spelling: spans
\* separated by a space in a line; a paragraph, heading, list, quote, fence,
\* table or rule as a block; one block, or two with a blank line between.
MaxSpans == 2

Words == {"a", "..."}
SpanSet ==
    {<<w>> : w \in Words}
    \cup {<<"**", w, "**">> : w \in Words}
    \cup {<<"backtick", w, "backtick">> : w \in Words}
    \cup {<<"*", "a", "*">>, <<"_", "a", "_">>, <<"~~", "a", "~~">>,
          <<"[", "a", "](", "u", ")">>, <<"![", "a", "](", "u", ")">>}
RECURSIVE Lines(_)
Lines(n) ==
    IF n = 1 THEN SpanSet
    ELSE Lines(n - 1) \cup {l \o <<" ">> \o s : l \in Lines(n - 1), s \in SpanSet}
PipeRow(cells) ==
    <<"|">> \o Flatten([i \in 1..Len(cells) |-> <<" ">> \o cells[i] \o <<" ", "|">>])
PipeRule(width) == <<"|">> \o Flatten([i \in 1..width |-> <<" --- ", "|">>])
TablesUnder(h) ==
    {PipeRow(h) \o <<"\n">> \o PipeRule(Len(h))}
    \cup {PipeRow(h) \o <<"\n">> \o PipeRule(Len(h)) \o <<"\n">>
              \o PipeRow([i \in 1..Len(h) |-> c]) : c \in SpanSet}
PipeTables == TablesUnder(<<<<"a">>>>) \cup TablesUnder(<<<<"a">>, <<"**", "b", "**">>>>)
FencedBlocks ==
    {<<"fence">> \o lang \o <<"\n">> \o code \o <<"\n", "fence">> :
        lang \in {<< >>, <<"python">>}, code \in {<<"a">>, <<"a", "\n", "...">>}}
BlockSet ==
    Lines(MaxSpans)
    \cup {<<h>> \o s : h \in {"# ", "## ", "### "}, s \in SpanSet}
    \cup {<<"- ">> \o s : s \in SpanSet}
    \cup {<<"- ">> \o s \o <<"\n", "- ">> \o t : s \in SpanSet, t \in SpanSet}
    \cup {<<"- ", "a", "\n", "indent", "- ">> \o s : s \in SpanSet}
    \cup {<<"1. ">> \o s \o <<"\n", "2. ">> \o t : s \in SpanSet, t \in {<<"a">>}}
    \cup {<<"> ">> \o s : s \in SpanSet}
    \cup FencedBlocks \cup PipeTables \cup {<<"---">>}
FollowingBlocks == {<<"a">>, <<"# ", "a">>} \cup PipeTables

\* the accepted differences: the emphasis and list marks in one style, no
\* white space at the end
normalize(md) ==
    TrimEnd([i \in 1..Len(md) |-> IF md[i] = "_" THEN "*" ELSE md[i]])

\* the markdown is rendered into the editable element and serialized back
RoundTrip ==
    /\ pureOp = "none"
    /\ pureOut' = serializeHtml(EditorEl(parseMarkdown(pureIn)))
    /\ pureOp' = "roundtrip"
    /\ UNCHANGED <<pureIn, hvars, tvars, cvars, evars, uvars>>

\* a document of the supported subset
RoundTripInit ==
    /\ NewHistory(MaxDepthCfg)
    /\ NoTable
    /\ NoDocument
    /\ NoEditor
    /\ NoComposable
    /\ pureOp = "none"
    /\ pureOut = << >>
    /\ \E b \in BlockSet :
          \/ pureIn = b
          \/ \E c \in FollowingBlocks : pureIn = b \o <<"\n\n">> \o c

RoundTripSpec == RoundTripInit /\ [][RoundTrip]_vars

\* The lists the list commands start from, as rendered from markdown: three
\* items in a row; an item holding a list whose first item holds a list and
\* has an item after it; a bullet list holding a numbered list; a numbered
\* list.  The cursor is at the start of the text of an item.
ListMarkdown ==
    {<<"- ", "a", "\n", "- ", "b", "\n", "- ", "c">>,
     <<"- ", "a", "\n", "indent", "- ", "b", "\n", "indent", "indent", "- ", "c", "\n",
       "indent", "- ", "d">>,
     <<"- ", "a", "\n", "indent", "1. ", "b", "\n", "- ", "c">>,
     <<"1. ", "a", "\n", "2. ", "b">>}
ListInit ==
    /\ NewHistory(MaxDepthCfg)
    /\ NoTable
    /\ NoEditor
    /\ NoPure
    /\ NoComposable
    /\ \E md \in ListMarkdown :
          LET d == EditorEl(parseMarkdown(md))
          IN  \E p \in TextLeaves(d) : NewDocument(d, Collapsed(Point(p, 0)))

ListNext ==
    \/ IndentList
    \/ OutdentList
    \/ RequestList
    \/ PlaceCursor

ListSpec == ListInit /\ [][ListNext]_vars

\* any document the parser builds from the pasted string
SanitizeInit ==
    /\ NewHistory(MaxDepthCfg)
    /\ NoTable
    /\ NoDocument
    /\ NoEditor
    /\ NoComposable
    /\ pureOp = "none"
    /\ pureOut = << >>
    /\ \E n \in Parsed(MaxNest, FALSE, FALSE, FALSE) : pureIn = <<n>>

SanitizeSpec == SanitizeInit /\ [][Sanitize]_vars

(* ------------------- the language of a fenced block -------------------- *)

\* The characters of a language name: a lower-case letter, an upper-case
\* letter and the space.  (The characters that mean something to an HTML
\* parser are studied with the fence renderer above.)
LangChars == {"a", "B", " "}
Langs == UNION {[1..n -> LangChars] : n \in 0..MaxLang}
toLowerCase(str) == ReplaceAll(str, "B", "b")
\* a value that is not there (null, undefined), among character sequences
Absent == <<NULL>>
\* the character references of an attribute value or a text, decoded
decoded(str) ==
    [i \in 1..Len(str) |->
        CASE str[i] = "&quot;" -> "\""
          [] str[i] = "&#39;" -> "'"
          [] str[i] = "&amp;" -> "&"
          [] str[i] = "&lt;" -> "<"
          [] str[i] = "&gt;" -> ">"
          [] OTHER -> str[i]]
\* el.getAttribute(name) of a parsed start tag, Absent when it has none
AttrOf(tag, name) ==
    LET at == {i \in 1..Len(tag.attrs) : tag.attrs[i][1] = name}
    IN  IF at = {} THEN Absent ELSE decoded(tag.attrs[CHOOSE i \in at : TRUE][2])

\* The <pre> of one fenced block as the editor holds it: the label's
\* data-lang attribute and its text, whether there is a <code> and its
\* className, and the value of the language input while one is shown.
PreOf(html, labelText) ==
    LET tags == StartTags(html)
        class == AttrOf(tags[3], "class")
    IN  [dataLang |-> AttrOf(tags[2], "data-lang"),
         label |-> decoded(labelText),
         hasCode |-> TRUE,
         className |-> IF class = Absent THEN << >> ELSE class,
         input |-> Absent]

\* renderMarkdown of a fence with the given info string
renderedFence(info, highlight) ==
    LET lang == Trim(info)
    IN  PreOf(fenceRule(info, <<"a">>, highlight),
              escapeHtmlStr(IF lang = << >> THEN <<"plain text">> ELSE lang))

\* codeBlock(lang) outside a <pre>: the html it inserts at the cursor; lang
\* is Absent when the argument is left out
codeBlockHtml(lang) ==
    LET given == lang # Absent /\ lang # << >>
        displayLang == IF given THEN lang ELSE <<"plain text">>
        langClass == IF given
                     THEN <<" ", "class", "=", "\"", "language-">> \o escapeAttrStr(lang)
                          \o <<"\"">>
                     ELSE << >>
    IN  <<"<pre", ">", "<div", " ", "class", "=", "\"", "ce-code-lang", "\"", " ",
          "contenteditable", "=", "\"", "false", "\"", " ", "data-lang", "=", "\"">>
        \o escapeAttrStr(IF given THEN lang ELSE << >>) \o <<"\"", ">">>
        \o escapeHtmlStr(displayLang)
        \o <<"</div>", "<code">> \o langClass \o <<">", "code", "</code>", "</pre>">>
insertedCodeBlock(lang) ==
    PreOf(codeBlockHtml(lang),
          escapeHtmlStr(IF lang # Absent /\ lang # << >> THEN lang ELSE <<"plain text">>))

\* (className || '').match(/language-(\S+)/): the first group, '' when the
\* class does not match
languageOfClass(className) ==
    LET at == {i \in 1..Len(className) - 1 :
                   className[i] = "language-" /\ className[i + 1] # " "}
        i == CHOOSE k \in at : \A j \in at : k <= j
        ends == {k \in i + 1..Len(className) :
                     k = Len(className) \/ className[k + 1] = " "}
    IN  IF at = {} THEN << >>
        ELSE SubSeq(className, i + 1, CHOOSE k \in ends : \A j \in ends : k <= j)
\* the language the fencedCodeBlock rule of serializeHtml emits after ```
fencedCodeBlockLang(preEl) ==
    IF preEl.hasCode THEN languageOfClass(preEl.className) ELSE preEl.dataLang

\* showLangInput(labelEl): an input over the label holds the data-lang; an
\* input shown before is removed
showLangInput(preEl) == [preEl EXCEPT !.input = preEl.dataLang]
\* the user types in the input
typed(preEl, value) == [preEl EXCEPT !.input = value]
\* commitLang(), on blur or Enter
commitLang(preEl) ==
    LET newLang == toLowerCase(Trim(preEl.input))
    IN  [preEl EXCEPT !.input = Absent,
                    !.label = IF newLang = << >> THEN <<"plain text">> ELSE newLang,
                    !.dataLang = newLang,
                    !.className = IF ~preEl.hasCode THEN @
                                  ELSE IF newLang = << >> THEN << >>
                                  ELSE <<"language-">> \o newLang]
\* Escape in the input: the input is removed and nothing is committed; a
\* browser that fires blur on the removed input runs commitLang
cancelled(preEl) == {[preEl EXCEPT !.input = Absent], commitLang(preEl)}
\* the user deletes all the code and the browser drops the <code>; onInput()
\* then repairs the <pre> with a <code> for the language of the label
repairedPre(preEl) ==
    IF preEl.hasCode THEN preEl
    ELSE [preEl EXCEPT !.hasCode = TRUE,
                     !.className = IF preEl.dataLang \in {Absent, << >>} THEN << >>
                                   ELSE <<"language-">> \o preEl.dataLang]
codeDeleted(preEl) == repairedPre([preEl EXCEPT !.hasCode = FALSE, !.className = << >>])

\* One fenced block: pureOut is its <pre>, pureIn the highlight function the
\* editor was given, pureOp the last thing that happened to it.
LangStep(op, preEl) ==
    /\ pureOut' = preEl
    /\ pureOp' = op
    /\ UNCHANGED <<pureIn, hvars, tvars, cvars, evars, uvars>>
RenderFence ==
    /\ pureOp = "none"
    /\ \E info \in Langs : LangStep("render", renderedFence(info, pureIn.highlight))
InsertCodeBlock ==
    /\ pureOp = "none"
    /\ \E lang \in Langs \cup {Absent} : LangStep("codeBlock", insertedCodeBlock(lang))
\* the markdown serialized from the block is rendered again
RenderAgain ==
    /\ pureOp \notin {"none", "render"}
    /\ pureOut.input = Absent
    /\ LangStep("render", renderedFence(fencedCodeBlockLang(pureOut), pureIn.highlight))
ShowLangInput ==
    /\ pureOp # "none"
    /\ LangStep("showLangInput", showLangInput(pureOut))
\* the user replaces the text of the input just shown
TypeLang ==
    /\ pureOp = "showLangInput"
    /\ \E value \in Langs : value # pureOut.input /\ LangStep("type", typed(pureOut, value))
CommitLang ==
    /\ pureOp # "none"
    /\ pureOut.input # Absent
    /\ LangStep("commitLang", commitLang(pureOut))
CancelLang ==
    /\ pureOp # "none"
    /\ pureOut.input # Absent
    /\ \E preEl \in cancelled(pureOut) : LangStep("cancel", preEl)
\* rehighlightCurrentBlock(): the content of the <code> is replaced, its
\* class and the label stay
Rehighlight ==
    /\ pureOp # "none"
    /\ pureIn.highlight = "block"
    /\ languageOfClass(pureOut.className) # << >>
    /\ LangStep("rehighlight", pureOut)
DeleteCode ==
    /\ pureOp # "none"
    /\ LangStep("deleteCode", codeDeleted(pureOut))
LangNext ==
    \/ RenderFence \/ InsertCodeBlock \/ RenderAgain \/ ShowLangInput \/ TypeLang
    \/ CommitLang \/ CancelLang \/ Rehighlight \/ DeleteCode
LangInit ==
    /\ NewHistory(MaxDepthCfg)
    /\ NoTable
    /\ NoDocument
    /\ NoEditor
    /\ NoComposable
    /\ pureOp = "none"
    /\ pureOut = << >>
    /\ \E highlight \in {"none", "empty", "block"} : pureIn = [highlight |-> highlight]
LangSpec == LangInit /\ [][LangNext]_vars

\* a fence token of any info string, with code that holds markup or not
FenceInit ==
    /\ NewHistory(MaxDepthCfg)
    /\ NoTable
    /\ NoDocument
    /\ NoEditor
    /\ NoComposable
    /\ pureOp = "none"
    /\ pureOut = << >>
    /\ \E info \in Infos, code \in {<<"a">>, <<"<", "a", ">">>},
          highlight \in {"none", "empty", "block"} :
          pureIn = [info |-> info, code |-> code, highlight |-> highlight]

FenceSpec == FenceInit /\ [][Fence]_vars

(* ------------------------- claims: history ----------------------------- *)

\* the last operation was a push (immediate, or a debounced one that fired)
Pushed == lastOp \in {"pushImmediate", "fire"}
\* ... and its markdown differed from the top entry it found
PushedNew == Pushed /\ Differs(pre.undoStack, arg)

\* the part of C1 about undo followed at once by redo
UndoRedoRoundTrip ==
    (lastOp = "undo" /\ canUndo(pre.undoStack)) =>
        LET r == redo(undoStack, redoStack)
        IN  /\ ret = pre.undoStack[Len(pre.undoStack) - 1]
            /\ r.ret = Top(pre.undoStack)
            /\ r.undoStack = pre.undoStack
            /\ r.redoStack = pre.redoStack

\* the part of C1 about init(X) followed at once by pushImmediate(Y), Y # X
InitThenPush ==
    LET u == undo(undoStack, redoStack)
        r == redo(u.undoStack, u.redoStack)
    IN  /\ canUndo(undoStack)
        /\ u.ret.markdown = pre.undoStack[1].markdown
        /\ canRedo(u.redoStack)
        /\ r.ret.markdown = arg

AfterInitThenPush ==
    /\ lastOp = "pushImmediate"
    /\ pre.lastOp = "init"
    /\ Differs(pre.undoStack, arg)

\* C1 as stated: wherever canUndo holds, undo() returns the entry below the
\* top and redo() then returns the former top and restores both stacks; and
\* after init(X), pushImmediate(Y) with Y # X: canUndo, undo() returns X,
\* canRedo, redo() returns Y -- for every configured maxDepth.
C1_AsStated ==
    /\ UndoRedoRoundTrip
    /\ AfterInitThenPush => InitThenPush

\* C1 amended: the same, the init / pushImmediate part for maxDepth >= 2 (with
\* maxDepth = 1 the push trims X away and canUndo is false).
C1_UndoRedo ==
    /\ UndoRedoRoundTrip
    /\ (AfterInitThenPush /\ maxDepth >= 2) => InitThenPush

\* reached: init(X), pushImmediate(Y), undo(), redo() returning Y
C1_Witness ==
    /\ lastOp = "redo"
    /\ pre.lastOp = "undo"
    /\ ret.markdown = "Y"
    /\ Len(undoStack) = 2
    /\ undoStack[1].markdown = "X"
    /\ pre.redoStack = <<ret>>

\* C2: for maxDepth >= 1 the undo stack never holds more than maxDepth
\* entries; a push that appends keeps the newest entries of the old stack, in
\* order, under the entry just pushed, and drops only from the oldest end.
C2_Bounded ==
    maxDepth >= 1 =>
        /\ Len(undoStack) <= maxDepth
        /\ PushedNew =>
              LET n == Len(undoStack)
                  m == Len(pre.undoStack)
              IN  /\ n = Min(m + 1, maxDepth)
                  /\ Top(undoStack).markdown = arg
                  /\ SubSeq(undoStack, 1, n - 1) = SubSeq(pre.undoStack, m - n + 2, m)

\* reached: a push onto a full stack of at least two entries
C2_Witness ==
    /\ PushedNew
    /\ maxDepth >= 2
    /\ Len(pre.undoStack) = maxDepth
    /\ Len(undoStack) = maxDepth

\* C3: a push that appends leaves the redo stack empty (canRedo false, redo()
\* returns null), and only an undo() makes an empty redo stack non-empty.
C3_PushClearsRedo ==
    /\ PushedNew =>
          /\ redoStack = << >>
          /\ ~canRedo(redoStack)
          /\ redo(undoStack, redoStack).ret = NullEntry
          /\ redo(undoStack, redoStack).undoStack = undoStack
    /\ (pre.redoStack = << >> /\ redoStack # << >>) => lastOp = "undo"

\* reached: a debounced push fired and emptied a non-empty redo stack
C3_Witness ==
    /\ lastOp = "fire"
    /\ Differs(pre.undoStack, arg)
    /\ pre.redoStack # << >>
    /\ redoStack = << >>

\* C4: a push whose markdown equals the top entry's changes neither stack.
C4_SamePushNoop ==
    (Pushed /\ ~Differs(pre.undoStack, arg)) =>
        /\ undoStack = pre.undoStack
        /\ redoStack = pre.redoStack

\* reached: such a push with a non-empty redo stack
C4_Witness ==
    /\ lastOp = "pushImmediate"
    /\ ~Differs(pre.undoStack, arg)
    /\ redoStack # << >>

\* C5: undo() returns null exactly when the undo stack holds at most one
\* entry, redo() exactly when the redo stack is empty, and then neither stack
\* changes; otherwise an entry is returned and moved; canUndo / canRedo say
\* which case a call would meet.
C5_NullExactly ==
    /\ lastOp = "undo" =>
          /\ (ret = NullEntry) <=> (Len(pre.undoStack) <= 1)
          /\ (ret = NullEntry) <=>
                (undoStack = pre.undoStack /\ redoStack = pre.redoStack)
    /\ lastOp = "redo" =>
          /\ (ret = NullEntry) <=> (Len(pre.redoStack) = 0)
          /\ (ret = NullEntry) <=>
                (undoStack = pre.undoStack /\ redoStack = pre.redoStack)
    /\ canUndo(undoStack) <=> (undo(undoStack, redoStack).ret # NullEntry)
    /\ canUndo(undoStack) <=> (undo(undoStack, redoStack).undoStack # undoStack)
    /\ canRedo(redoStack) <=> (redo(undoStack, redoStack).ret # NullEntry)
    /\ canRedo(redoStack) <=> (redo(undoStack, redoStack).redoStack # redoStack)

\* reached: undo() refused on a one-entry stack, after a redo() was possible
C5_Witness ==
    /\ lastOp = "undo"
    /\ ret = NullEntry
    /\ Len(undoStack) = 1
    /\ redoStack # << >>

\* C6: within a burst of pushState calls less than the debounce interval
\* apart, with no other history call between them, at most one entry is
\* appended; it is appended no earlier than the interval after the last call
\* and carries the markdown of the last call.
C6_Debounced ==
    burstN >= 1 =>
        /\ burstApp <= 1
        /\ burstApp = 1 =>
              /\ now >= burstAt + DebounceMs
              /\ lastOp = "fire"
              /\ arg = burstMd
              /\ Top(undoStack).markdown = burstMd
        /\ \A tm \in timers : tm.due = burstAt + DebounceMs /\ tm.markdown = burstMd

\* reached: a burst of two calls with different markdown, then the one append
C6_Witness ==
    /\ burstN = 2
    /\ burstApp = 1
    /\ lastOp = "fire"
    /\ pre.lastOp = "pushState"
    /\ Len(undoStack) = Len(pre.undoStack) + 1

\* C7: after pushImmediate(m) or clear() no timer set by an earlier pushState
\* is left to fire: m stays on top, and after clear() both stacks are empty,
\* until the caller's next call.
C7_Cancelled ==
    /\ lastOp \in {"pushImmediate", "clear"} => timers = {}
    /\ lastOp = "fire" => pre.lastOp \notin {"pushImmediate", "clear"}
    /\ lastOp = "pushImmediate" => Top(undoStack).markdown = arg
    /\ lastOp = "clear" => (undoStack = << >> /\ redoStack = << >>)

\* reached: pushImmediate right after a pushState, the clock past the old due time
C7_Witness ==
    /\ lastOp = "pushImmediate"
    /\ pre.lastOp = "pushState"
    /\ debounceTimer # NullTimer
    /\ now >= debounceTimer.due
    /\ Len(undoStack) > 0
    /\ Top(undoStack).markdown = arg
    /\ arg # debounceTimer.markdown

(* -------------------------- claims: tables ----------------------------- *)

\* the cells of the table (the detached cell left out)
TableCells == Targets(table) \ {Detached}

C10_RemoveColumn ==
    \A c \in TableCells :
        LET Without(row) == IF c.col < Len(row) THEN RemoveAt(row, c.col + 1) ELSE row
        IN  removeColumn(table, c) =
                IF Len(AllRows(table)[1]) <= 1
                THEN [table |-> table, ret |-> "false"]
                ELSE [table |-> [head |-> [i \in 1..Len(table.head) |-> Without(table.head[i])],
                                 hasBody |-> table.hasBody,
                                 body |-> [i \in 1..Len(table.body) |-> Without(table.body[i])]],
                      ret |-> "true"]

\* reached: removeColumn, given the header row's second cell, took it out and
\* left as it was a body row that started with one cell only
C10_Witness ==
    /\ ~tStartOK
    /\ tLastOp = "removeColumn"
    /\ tRet = "true"
    /\ tCell = CellAt("THEAD", 1, 1)
    /\ table.head = << <<Cell("th", "H1")>> >>
    /\ Len(table.body) >= 1
    /\ table.body[1] = <<Cell("td", "a1")>>

(* ------------------- claims: selection and commands -------------------- *)

\* the cell the node at p lies in (the node itself when it is a cell), and
\* the table an element lies in; NoNode when there is none
CellOf(d, p) ==
    LET ks == {k \in 0..Len(p) : IsCellTag(NodeAt(d, SubSeq(p, 1, k)))}
    IN  IF p = NoNode \/ ks = {} THEN NoNode ELSE SubSeq(p, 1, Max(ks))
EnclosingTable(d, p) ==
    LET ks == {k \in 0..Len(p) : NodeAt(d, SubSeq(p, 1, k)).tag = "TABLE"}
    IN  IF p = NoNode \/ ks = {} THEN NoNode ELSE SubSeq(p, 1, Max(ks))

\* the selection is not collapsed and both its ends lie in cells of one table
EndsInOneTable(d, s) ==
    /\ s # NoSelection
    /\ ~isCollapsed(s)
    /\ CellOf(d, s.anchor.node) # NoNode
    /\ CellOf(d, s.focus.node) # NoNode
    /\ EnclosingTable(d, s.anchor.node) = EnclosingTable(d, s.focus.node)

\* C11: a selection that is not collapsed and whose two ends lie in cells of
\* the same table is reported cross-cell by isSelectionCrossCell exactly
\* when the two cells differ, whichever end is the anchor.
C11_CrossCellExactly ==
    EndsInOneTable(doc, sel) =>
        (isSelectionCrossCell(doc, sel)
            <=> CellOf(doc, sel.anchor.node) # CellOf(doc, sel.focus.node))

\* a selection made backwards from one body cell into the one before it
C11_Witness ==
    /\ EndsInOneTable(doc, sel)
    /\ PointBefore(sel.focus, sel.anchor)
    /\ CellOf(doc, sel.anchor.node) # CellOf(doc, sel.focus.node)
    /\ IsText(NodeAt(doc, sel.anchor.node))
    /\ IsText(NodeAt(doc, sel.focus.node))
    /\ isSelectionCrossCell(doc, sel)

\* the names of the inline commands, and their tags
InlineNames == {"bold", "italic", "strikethrough", "codeInline"}
InlineTags == {"STRONG", "EM", "DEL", "CODE"}

\* the selection spans more than one cell: it is not collapsed and its two
\* ends lie in two different cells
SpansCells(d, s) ==
    /\ s # NoSelection
    /\ ~isCollapsed(s)
    /\ CellOf(d, s.anchor.node) # NoNode
    /\ CellOf(d, s.focus.node) # NoNode
    /\ CellOf(d, s.anchor.node) # CellOf(d, s.focus.node)

\* C12: when the selection spans more than one table cell, wrapSelection
\* leaves the tree and the selection as they are, and so does each inline
\* command (bold, italic, strikethrough, codeInline) that has run.
C12_CrossCellNoOp ==
    /\ SpansCells(doc, sel) =>
           \A tag \in InlineTags :
               wrapSelection(doc, sel, tag) = [doc |-> doc, sel |-> sel]
    /\ (cLastOp \in InlineNames /\ SpansCells(cPre.doc, cPre.sel)) =>
           (doc = cPre.doc /\ sel = cPre.sel)

\* the names of the block commands
BlockNames == {"heading1", "heading2", "heading3", "bulletList", "orderedList",
               "blockquote", "codeBlock"}

\* C13: a block command (heading, bulletList, orderedList, blockquote,
\* codeBlock) run while the selection anchor is inside a table cell leaves
\* the document as it was.
C13_BlockCommandsRefuseInCell ==
    (cLastOp \in BlockNames /\ CellOf(cPre.doc, cPre.sel.anchor.node) # NoNode)
        => doc = cPre.doc

\* codeBlock ran with the anchor in a body cell and the focus outside every
\* cell, and nothing changed
C13_Witness ==
    /\ cLastOp = "codeBlock"
    /\ CellOf(cPre.doc, cPre.sel.anchor.node) # NoNode
    /\ NodeAt(cPre.doc, CellOf(cPre.doc, cPre.sel.anchor.node)).tag = "TD"
    /\ CellOf(cPre.doc, cPre.sel.focus.node) = NoNode
    /\ ~isCollapsed(cPre.sel)
    /\ doc = cPre.doc

\* C14: for a selection that is not collapsed and not cross-cell, calling
\* wrapSelection(tag) twice in a row leaves a document whose serialized form
\* is the one it had before the first call.
C14_TwiceRestores ==
    (sel # NoSelection /\ sel # OutsideSelection /\ ~isCollapsed(sel)
        /\ ~isSelectionCrossCell(doc, sel)) =>
        \A tag \in InlineTags :
            LET once == wrapSelection(doc, sel, tag)
                twice == wrapSelection(once.doc, once.sel, tag)
            IN  serializeHtml(twice.doc) = serializeHtml(doc)

(* ---------------------- claims: editor component ----------------------- *)

\* a toolbar action other than undo and redo was dispatched in wysiwyg mode
\* on an enabled editor, and the markdown is no longer what it was
ActedOn ==
    /\ gesture.kind = "toolbar"
    /\ gesture.name \notin {"undo", "redo"}
    /\ ePre.currentMode = "wysiwyg"
    /\ ~disabled
    /\ modelValue # ePre.modelValue

C16_ModeChangeResyncs ==
    /\ currentMode \in Modes
    /\ (gesture.name \in {"toggleMode", "mode"} /\ currentMode # ePre.currentMode) =>
           IF currentMode = "markdown"
           THEN modelValue = serializeHtml(ePre.doc)
           ELSE doc = EditorEl(parseMarkdown(modelValue))

\* C17: every action name of the vocabulary, dispatched in wysiwyg mode to an
\* enabled editor, invokes the command or history operation of that name.
C17_EveryNameInvokes ==
    (gesture.kind = "toolbar" /\ ePre.currentMode = "wysiwyg" /\ ~disabled)
        => invoked = gesture.name

\* C18: while the editor is disabled, no key press, paste, toolbar action or
\* context command changes the editable tree, emits update:modelValue or
\* changes the history stacks.
C18_DisabledBlocks ==
    (disabled /\ gesture.kind \in {"key", "paste", "toolbar", "context"}) =>
        /\ doc = ePre.doc
        /\ emitted = << >>
        /\ undoStack = ePre.undoStack
        /\ redoStack = ePre.redoStack

(* ------------------------ claims: table keys --------------------------- *)

\* the cells and the rows of the table at t, in reading order
CellsInOrder(d, t) == SelectSeq(Descendants(d, t), LAMBDA p : IsCellTag(NodeAt(d, p)))
RowsInOrder(d, t) == SelectSeq(Descendants(d, t), LAMBDA p : NodeAt(d, p).tag = "TR")
PlaceIn(seq, x) == CHOOSE i \in 1..Len(seq) : seq[i] = x
\* the column of a cell: its place among the cells of its row
ColumnOf(d, c) == Cardinality({j \in 1..Last(c) : IsCellTag(NodeAt(d, Parent(c) \o <<j>>))})

\* the selection lies in the cell c: both its ends do
SelectionIn(d, s, c) ==
    /\ s # NoSelection
    /\ CellOf(d, s.anchor.node) = c
    /\ CellOf(d, s.focus.node) = c

\* the key was pressed, on an enabled editor, with the selection in one cell
KeyIn == IF ePre.sel = NoSelection THEN NoNode
         ELSE IF CellOf(ePre.doc, ePre.sel.anchor.node) = CellOf(ePre.doc, ePre.sel.focus.node)
         THEN CellOf(ePre.doc, ePre.sel.anchor.node)
         ELSE NoNode
Pressed(key) == gesture = [kind |-> "key", name |-> key] /\ ~disabled /\ KeyIn # NoNode
KeyTable == EnclosingTable(ePre.doc, KeyIn)
KeyPlace == PlaceIn(CellsInOrder(ePre.doc, KeyTable), KeyIn)
KeyRow == PlaceIn(RowsInOrder(ePre.doc, KeyTable), Parent(KeyIn))

\* Tab in a cell that is not the last moves the selection to the next cell
C19_TabNext ==
    (Pressed("Tab") /\ KeyPlace < Len(CellsInOrder(ePre.doc, KeyTable))) =>
        /\ doc = ePre.doc
        /\ SelectionIn(doc, sel, CellsInOrder(doc, KeyTable)[KeyPlace + 1])
\* Tab in the last cell appends a row and moves the selection into it
C19_TabLastAppends ==
    (Pressed("Tab") /\ KeyPlace = Len(CellsInOrder(ePre.doc, KeyTable))) =>
        /\ Len(RowsInOrder(doc, KeyTable)) = Len(RowsInOrder(ePre.doc, KeyTable)) + 1
        /\ sel # NoSelection
        /\ CellOf(doc, sel.anchor.node) # NoNode
        /\ Parent(CellOf(doc, sel.anchor.node))
               = RowsInOrder(doc, KeyTable)[Len(RowsInOrder(doc, KeyTable))]
\* Shift+Tab in a cell that is not the first moves the selection to the
\* previous cell
C19_ShiftTabPrev ==
    (Pressed("Shift+Tab") /\ KeyPlace > 1) =>
        /\ doc = ePre.doc
        /\ SelectionIn(doc, sel, CellsInOrder(doc, KeyTable)[KeyPlace - 1])

\* C19: Tab pressed inside a table cell moves the selection to the next cell
\* in reading order; pressed in the last cell of the table it appends a new
\* row and moves into it; Shift+Tab moves to the previous cell.
C19_TabNavigation == C19_TabNext /\ C19_TabLastAppends /\ C19_ShiftTabPrev

\* C20: Enter pressed inside a table cell moves the cursor to the cell in the
\* same column of the next row, a new row being appended first when the cell
\* is in the last row; the content of the cell it was pressed in is not
\* changed.
C20_EnterNextRow ==
    Pressed("Enter") =>
        LET rows == RowsInOrder(doc, KeyTable)
            before == RowsInOrder(ePre.doc, KeyTable)
        IN  /\ Len(rows) = IF KeyRow = Len(before) THEN Len(before) + 1 ELSE Len(before)
            /\ NodeAt(doc, KeyIn) = NodeAt(ePre.doc, KeyIn)
            /\ isCollapsed(sel)
            /\ CellOf(doc, sel.anchor.node) # NoNode
            /\ Parent(CellOf(doc, sel.anchor.node)) = rows[KeyRow + 1]
            /\ ColumnOf(doc, CellOf(doc, sel.anchor.node)) = ColumnOf(ePre.doc, KeyIn)

(* --------------------- claims: history, continued ---------------------- *)

\* C24: between a successful undo() or redo(), or an init(X), and the
\* caller's next history call, no step changes the stacks: no timer set by
\* an earlier pushState fires into them.
C24_QuietAfterUndo ==
    [][(\/ lastOp \in {"undo", "redo"} /\ ret # NullEntry
        \/ lastOp = "init")
       /\ lastOp' = "fire"
           => (undoStack' = undoStack /\ redoStack' = redoStack)]_vars

\* C30: for maxDepth >= 1 the two stacks together never hold more than
\* maxDepth entries, and an undo() or redo() that returns an entry moves the
\* top entry of one stack onto the other, every other entry left as it was.
C30_TotalBounded ==
    maxDepth >= 1 =>
        /\ Len(undoStack) + Len(redoStack) <= maxDepth
        /\ (lastOp = "undo" /\ ret # NullEntry) =>
              /\ Append(undoStack, Top(redoStack)) = pre.undoStack
              /\ redoStack = Append(pre.redoStack, Top(pre.undoStack))
        /\ (lastOp = "redo" /\ ret # NullEntry) =>
              /\ Append(redoStack, Top(undoStack)) = pre.redoStack
              /\ undoStack = Append(pre.undoStack, Top(pre.redoStack))

\* reached: an undo() on a full undo stack, the redo stack not empty before
C30_Witness ==
    /\ lastOp = "undo"
    /\ ret # NullEntry
    /\ maxDepth >= 3
    /\ pre.redoStack # << >>
    /\ Len(undoStack) + Len(redoStack) = maxDepth

(* ----------------------- claims: fence renderer ------------------------ *)

TagNames(tags) == [i \in 1..Len(tags) |-> tags[i].tag]
AttrNames(tag) == [i \in 1..Len(tag.attrs) |-> tag.attrs[i][1]]

\* C21: whatever the info string of a fence, the rendered block holds the
\* elements pre, div and code and no other, the label has the attributes
\* class, contenteditable and data-lang and no other, and pre and code have
\* at most a class.
C21_NoInjection ==
    pureOp = "fence" =>
        LET tags == StartTags(pureOut)
        IN  /\ TagNames(tags) = <<"<pre", "<div", "<code">>
            /\ AttrNames(tags[1]) \in {<< >>, <<"class">>}
            /\ AttrNames(tags[2]) = <<"class", "contenteditable", "data-lang">>
            /\ AttrNames(tags[3]) \in {<< >>, <<"class">>}

(* -------------------------- claims: sanitizeHtml ----------------------- *)

\* the scheme a browser resolves a URL attribute to: leading and trailing
\* spaces are stripped, tabs and newlines are dropped anywhere, case is ignored
UrlScheme(v) ==
    LET w == LowerCase(TrimValue(SelectSeq(v, LAMBDA p : p # "\t")))
    IN  IF startsWithJavascript(w) THEN "javascript:"
        ELSE IF startsWithDataHtml(w) THEN "data:text/html"
        ELSE "other"
RemovedFamilies == {"script", "style", "iframe", "object", "embed", "form", "input"}

\* C22: the output of sanitizeHtml holds no element of a removed family and
\* nothing that was inside one, no attribute outside the allow-list, no
\* event-handler or style attribute, and no href or src with a javascript: or
\* data:text/html value.
C22_Sanitized == pureOp = "sanitize" =>
    \A i \in 1..Len(pureOut) :
        /\ ~pureOut[i].inRemoved
        /\ pureOut[i].kind = "element" =>
              /\ pureOut[i].name \notin RemovedFamilies
              /\ \A j \in 1..Len(pureOut[i].attrs) :
                    /\ pureOut[i].attrs[j].name \in ALLOWED_ATTRS
                    /\ ~startsWithOn(pureOut[i].attrs[j].name)
                    /\ pureOut[i].attrs[j].name # "style"
                    /\ pureOut[i].attrs[j].name \in {"href", "src"} =>
                          UrlScheme(pureOut[i].attrs[j].value) = "other"

(* ---------------------------- claims: codec ---------------------------- *)

\* C23: for every document of the supported subset, serializing the rendered
\* tree gives the markdown back, up to the accepted normalization.
C23_RoundTrip == pureOp = "roundtrip" => pureOut = normalize(pureIn)

\* C27: on each debounce channel (the history engine's checkpoint, the
\* serialization of the editable tree, the re-highlight of the code block)
\* at most one execution is pending at any time, and an event that
\* schedules an execution on a channel leaves exactly one pending there,
\* whatever was pending before it.
C27_SingleSlot ==
    /\ [](Cardinality(timers) <= 1 /\ inputTimer <= 1 /\ highlightTimer <= 1)
    /\ [][gesture'.kind \in {"input", "table"} /\ ops' = ops + 1 /\ doc' # doc =>
              /\ inputTimer' = 1
              /\ highlightTimer' = (IF highlightProp THEN 1 ELSE 0)
              /\ timers' # timers => Cardinality(timers') = 1]_vars
\* the second keystroke of a burst: an execution was pending on each channel
\* when it came, and one is pending on each after it
C27_Witness ==
    /\ gesture = [kind |-> "input", name |-> "typed"]
    /\ ops = 2
    /\ ePre.inputTimer = 1 /\ ePre.highlightTimer = 1 /\ Len(undoStack) = 1
    /\ inputTimer = 1 /\ highlightTimer = 1 /\ Cardinality(timers) = 1

\* C25: every table-control action is individually undoable: after two of
\* them, performed one after the other however quickly, each with an effect
\* on the document, and once the timers have run out, one undo() returns
\* the document as the first of the two left it.
C25_IndividuallyUndoable ==
    (/\ Len(structuralMds) = 2
     /\ ops = 2
     /\ timers = {}
     /\ inputTimer = 0)
    => undo(undoStack, redoStack).ret.markdown = structuralMds[1]

\* C26: when a toolbar action or a mode switch has asked the WYSIWYG editor
\* for an immediate synchronization (syncToMarkdown), no serialization is
\* left pending on the input timer.
C26_SyncCancelsPending ==
    (/\ gesture \in {[kind |-> "toolbar", name |-> "bold"],
                     [kind |-> "context", name |-> "toggleMode"]}
     /\ ePre.currentMode = "wysiwyg")
    => inputTimer = 0

\* C29: after an input event on the editable surface that left the input
\* timer pending, the timer's callback eventually emits an update:modelValue
\* that carries the serialization of the tree as it then is, so that the
\* last event of a burst is always followed by a publication of the final
\* tree.
C29_EventuallyPublished ==
    (gesture.kind \in {"input", "table"} /\ inputTimer > 0)
    ~> (/\ gesture = [kind |-> "timer", name |-> "input"]
        /\ inputTimer = 0
        /\ emitted = <<serializeHtml(doc)>>
        /\ modelValue = serializeHtml(doc))
\* the publication that follows a burst of two keystrokes
C29_Witness ==
    /\ gesture = [kind |-> "timer", name |-> "input"]
    /\ ops = 2
    /\ Cardinality({i \in 1..Len(modelValue) : modelValue[i] = "z"}) = 2
    /\ inputTimer = 0
    /\ emitted = <<modelValue>>
    /\ modelValue = serializeHtml(doc)

\* C28: an update:modelValue that the editor emitted for its own
\* serialization of the tree, coming back through modelValue, never makes
\* the watcher replace the tree: when the watcher has run for a value the
\* editor itself emitted, the tree was left as it was.
C28_OwnUpdateKeepsTree ==
    (gesture = [kind |-> "watch", name |-> "modelValue"] /\ invoked = "emit")
    => ~rerendered

\* C32: for every table and active cell, canRemoveRow is true exactly when
\* removeRow would return true, and canRemoveColumn is true exactly when
\* removeColumn would return true.
C32_ControlsAgree ==
    \A cell \in Targets(table) :
        /\ canRemoveRow(table, cell) <=> (removeRow(table, cell).ret = "true")
        /\ canRemoveColumn(table, cell) <=> (removeColumn(table, cell).ret = "true")

\* C31: after each table-control operation the cursor is collapsed on a node
\* of the document, at the start of the cell the operation is to make
\* active: the first cell of the new row after a row add, the first cell of
\* the row that followed the removed row (else of the one that preceded it)
\* after a row removal, the originally active cell after a column add, the
\* cell at min(original index, new last index) of the same row after a
\* column removal; after delete table it is in the replacement paragraph.
\* The operation was performed when the button was enabled with a cell
\* active.
C31_Before == [doc |-> ePre.doc, sel |-> ePre.sel]
C31_Performed ==
    /\ gesture.kind = "table"
    /\ activeCell(C31_Before) # NoNode
    /\ gesture.name = "removeRow" =>
           canRemoveRow(TreeTable(NodeAt(ePre.doc, TableAbove(ePre.doc, activeCell(C31_Before)))),
                        CellNamed(ePre.doc, activeCell(C31_Before)))
    /\ gesture.name = "removeColumn" =>
           canRemoveColumn(TreeTable(NodeAt(ePre.doc, TableAbove(ePre.doc, activeCell(C31_Before)))),
                           CellNamed(ePre.doc, activeCell(C31_Before)))
C31_Focused(was, at, is, width) ==
    /\ is # NoNode
    /\ sel = Collapsed(Point(is, 0))
    /\ CASE gesture.name \in {"addRowAbove", "addRowBelow"} ->
              /\ CellNamed(doc, is).col = 0
              /\ NodeAt(doc, Parent(is)) =
                     Elem("TR", [j \in 1..width |-> Elem("TD", <<Text(<<"&nbsp;">>)>>)])
              /\ CellNamed(doc, is).sec = "TBODY"
              /\ CellNamed(doc, is).row =
                     (IF at.sec = "THEAD" THEN 1
                      ELSE IF gesture.name = "addRowAbove" THEN at.row ELSE at.row + 1)
         [] gesture.name = "removeRow" ->
              /\ CellNamed(doc, is).col = 0
              /\ NodeAt(doc, Parent(is)) =
                     (IF Last(Parent(was)) < Len(NodeAt(ePre.doc, Parent(Parent(was))).kids)
                      THEN NodeAt(ePre.doc, Parent(Parent(was)) \o <<Last(Parent(was)) + 1>>)
                      ELSE NodeAt(ePre.doc, Parent(Parent(was)) \o <<Last(Parent(was)) - 1>>))
         [] gesture.name \in {"addColumnLeft", "addColumnRight"} ->
              /\ NodeAt(doc, is) = NodeAt(ePre.doc, was)
              /\ CellNamed(doc, is) =
                     CellAt(at.sec, at.row,
                            IF gesture.name = "addColumnLeft" THEN at.col + 1 ELSE at.col)
         [] gesture.name = "removeColumn" ->
              /\ Parent(is) = Parent(was)
              /\ CellNamed(doc, is).col =
                     Min(at.col, Len(SelectSeq(NodeAt(doc, Parent(is)).kids, IsCellTag)) - 1)
         [] OTHER -> FALSE
C31_CursorAttached ==
    C31_Performed =>
        /\ sel.anchor.node \in Paths(doc)
        /\ sel.focus = sel.anchor
        /\ IF gesture.name = "deleteTable"
           THEN /\ NodeAt(doc, sel.anchor.node) = Elem("P", <<Elem("BR", << >>)>>)
                /\ sel.anchor.node = TableAbove(ePre.doc, activeCell(C31_Before))
                /\ sel.anchor.offset = 0
           ELSE C31_Focused(activeCell(C31_Before),
                            CellNamed(ePre.doc, activeCell(C31_Before)),
                            activeCell(Here),
                            getColumnCount(TreeTable(NodeAt(ePre.doc,
                                TableAbove(ePre.doc, activeCell(C31_Before))))))

\* C33: deleting a cross-cell selection (Backspace or Delete pressed)
\* empties every table cell that the selection intersects, leaves the
\* number of rows and of cells of the table unchanged, and places the
\* cursor at the start of the anchor cell.
C33_Cells(d) == {p \in Paths(d) : IsCellTag(NodeAt(d, p))}
C33_Rows(d) == {p \in Paths(d) : ~IsText(NodeAt(d, p)) /\ NodeAt(d, p).tag = "TR"}
C33_Intersected(d, r) ==
    {c \in C33_Cells(d) :
        /\ PointBefore(Point(c, 0), r.end)
        /\ PointBefore(r.start, Point(c, NodeLength(NodeAt(d, c))))}
C33_CrossCellDelete ==
    (gesture = [kind |-> "key", name |-> "Delete"]
        /\ isSelectionCrossCell(ePre.doc, ePre.sel)) =>
        /\ C33_Cells(doc) = C33_Cells(ePre.doc)
        /\ C33_Rows(doc) = C33_Rows(ePre.doc)
        /\ \A c \in C33_Intersected(ePre.doc, getRangeAt(ePre.sel)) :
               textContent(NodeAt(doc, c)) = << >>
        /\ sel = Collapsed(Point(findClosestCell(ePre.doc, ePre.sel.anchor.node,
                                                 ePre.sel.anchor.offset), 0))

\* C35: a printable character typed while part of the text of a table cell
\* is selected takes the place of exactly the selected text: the text of
\* the cell is what was before the selection, the character, what was after
\* it; no other cell changes.
C35_TypedOverSelection ==
    (/\ gesture = [kind |-> "key", name |-> "char"]
     /\ ePre.sel.anchor.node = ePre.sel.focus.node
     /\ IsText(NodeAt(ePre.doc, ePre.sel.anchor.node))) =>
        LET r == getRangeAt(ePre.sel)
            cell == walkUpToCell(ePre.doc, r.start.node)
            was == NodeAt(ePre.doc, r.start.node).text
        IN  /\ textContent(NodeAt(doc, cell)) =
                   SubSeq(was, 1, r.start.offset) \o <<"z">>
                       \o SubSeq(was, r.end.offset + 1, Len(was))
            /\ \A c \in C33_Cells(ePre.doc) \ {cell} : NodeAt(doc, c) = NodeAt(ePre.doc, c)

\* C34: no inline formatting command (wrapSelection, bold, italic,
\* strikethrough, codeInline) changes the number of tables, of rows or of
\* cells in the document, whatever the selection.
C34_Count(d, tags) ==
    Cardinality({p \in Paths(d) : ~IsText(NodeAt(d, p)) /\ NodeAt(d, p).tag \in tags})
C34_Shape(d) ==
    <<C34_Count(d, {"TABLE"}), C34_Count(d, {"TR"}), C34_Count(d, {"TD", "TH"})>>
C34_TableShapeKept ==
    /\ sel # NoSelection =>
           \A tag \in InlineTags : C34_Shape(wrapSelection(doc, sel, tag).doc) = C34_Shape(doc)
    /\ cLastOp \in InlineNames => C34_Shape(doc) = C34_Shape(cPre.doc)

\* C36: after any sequence of indentList and outdentList operations the list
\* holds the same items in the same document order; an operation changes
\* the nesting depth of the moved item and of its descendants by one and of
\* no other item; the following siblings of an outdented item become a
\* sub-list of it; no list element is left without an item.
C36_ListOps == {"indentList", "outdentList"}
C36_Items(d) == {p \in Paths(d) : ~IsText(NodeAt(d, p)) /\ NodeAt(d, p).tag = "LI"}
C36_Order(d) == SelectSeq(textContent(d), LAMBDA c : c # "\n")
C36_Depth(d, p) ==
    Cardinality({k \in 1..Len(p) : NodeAt(d, SubSeq(p, 1, k)).tag = "LI"})
C36_Named(d, c) == CHOOSE p \in C36_Items(d) : NodeAt(d, p).kids[1].text = c
C36_Now(p) == C36_Named(doc, NodeAt(cPre.doc, p).kids[1].text)
C36_Moved == findAncestorTag(cPre.doc, cPre.sel.anchor.node, "LI")
C36_ListKept ==
    cLastOp \in C36_ListOps =>
        /\ C36_Order(doc) = C36_Order(cPre.doc)
        /\ \A p \in Paths(doc) : IsListTag(NodeAt(doc, p)) =>
               \E i \in 1..Len(NodeAt(doc, p).kids) : NodeAt(doc, p).kids[i].tag = "LI"
        /\ doc # cPre.doc =>
               /\ \A q \in C36_Items(cPre.doc) :
                      C36_Depth(doc, C36_Now(q)) =
                          C36_Depth(cPre.doc, q)
                              + (IF ~IsPrefix(C36_Moved, q) THEN 0
                                 ELSE IF cLastOp = "indentList" THEN 1 ELSE -1)
               /\ cLastOp = "outdentList" =>
                      \A q \in C36_Items(cPre.doc) :
                          (Parent(q) = Parent(C36_Moved) /\ Last(q) > Last(C36_Moved)) =>
                              Parent(Parent(C36_Now(q))) = C36_Now(C36_Moved)

\* the list tree: the tree without the whitespace text nodes that markdown
\* rendering leaves between the items of a list
RECURSIVE C37_ListTree(_)
C37_ListTree(n) ==
    IF IsText(n) THEN n
    ELSE LET ks == IF IsListTag(n)
                   THEN SelectSeq(n.kids, LAMBDA k : ~(IsText(k) /\ IsBlank(k.text)))
                   ELSE n.kids
         IN  [n EXCEPT !.kids = [i \in 1..Len(ks) |-> C37_ListTree(ks[i])]]
\* the text of the item the cursor s is in
C37_Item(d, s) == NodeAt(d, findAncestorTag(d, s.anchor.node, "LI")).kids[1].text
\* an indentList that moved an item has been followed by an outdentList on
\* the same item
C37_RoundTrip ==
    /\ cLastOp = "outdentList"
    /\ cPre.was.op = "indentList"
    /\ cPre.doc # cPre.was.doc
    /\ C36_Moved \in C36_Items(cPre.doc)
    /\ C37_Item(cPre.doc, cPre.sel) = C37_Item(cPre.was.doc, cPre.was.sel)

\* C37: indentList followed by outdentList on the same item restores the
\* list tree -- the same lists and items, with the same content, order and
\* nesting -- and the markdown it serializes to; only whitespace text nodes
\* between the items may have moved.  indentList on an item with no
\* preceding sibling item, and outdentList on an item of a top-level list,
\* change nothing.
C37_IndentOutdent ==
    /\ C37_RoundTrip =>
           /\ C37_ListTree(doc) = C37_ListTree(cPre.was.doc)
           /\ serializeHtml(doc) = serializeHtml(cPre.was.doc)
    /\ (/\ cLastOp = "indentList"
        /\ C36_Moved \in C36_Items(cPre.doc)
        /\ \A q \in C36_Items(cPre.doc) :
               ~(Parent(q) = Parent(C36_Moved) /\ Last(q) < Last(C36_Moved))) =>
           (doc = cPre.doc /\ indentList(cPre.doc, cPre.sel).sel = cPre.sel)
    /\ (/\ cLastOp = "outdentList"
        /\ C36_Moved \in C36_Items(cPre.doc)
        /\ C36_Depth(cPre.doc, C36_Moved) = 1) =>
           (doc = cPre.doc /\ outdentList(cPre.doc, cPre.sel).sel = cPre.sel)
C37_Witness ==
    /\ C37_RoundTrip
    /\ doc # cPre.doc
    /\ \E p \in C36_Items(doc) : C36_Depth(doc, p) = 2

\* the tree with every list made a bullet list: what is left of a tree when
\* the types of its lists are ignored
RECURSIVE C38_Untyped(_)
C38_Untyped(n) ==
    IF IsText(n) THEN n
    ELSE [n EXCEPT !.tag = IF @ = "OL" THEN "UL" ELSE @,
                   !.kids = [i \in 1..Len(@) |-> C38_Untyped(@[i])]]
\* the list type the last command requested, and the other one
C38_Requested == IF cLastOp = "bulletList" THEN "UL" ELSE "OL"
\* the innermost list the cursor was in before the command, NoNode when none
C38_Innermost ==
    LET p == cPre.sel.anchor.node
        ks == {k \in 1..Len(p) : IsListTag(NodeAt(cPre.doc, SubSeq(p, 1, k)))}
    IN  IF ks = {} THEN NoNode ELSE SubSeq(p, 1, CHOOSE k \in ks : \A j \in ks : k >= j)
\* a list type was requested with the cursor in a list of the other type
C38_InOpposite ==
    /\ cLastOp \in {"bulletList", "orderedList"}
    /\ cPre.sel # NoSelection
    /\ C38_Innermost # NoNode
    /\ NodeAt(cPre.doc, C38_Innermost).tag # C38_Requested

\* C38: requesting a list type with the cursor inside a list of the opposite
\* type converts every list of the enclosing list tree, at every level, to
\* the requested type, and leaves everything else -- the items, their order,
\* their nesting -- as it was; no item becomes a paragraph.
C38_ListConverted ==
    C38_InOpposite =>
        LET outer == OutermostList(cPre.doc, cPre.sel.anchor.node)
        IN  /\ C38_Untyped(doc) = C38_Untyped(cPre.doc)
            /\ \A p \in Paths(doc) :
                   (IsPrefix(outer, p) /\ IsListTag(NodeAt(doc, p))) =>
                       NodeAt(doc, p).tag = C38_Requested

(* ------------------ claims: language of a fenced block ----------------- *)

\* C39: for a fenced block, after any sequence of rendering, codeBlock(lang)
\* insertion, language-label edits committed or cancelled, re-highlighting
\* and code-element repair, the language read from the class of the code
\* element, the data-lang of the label and the visible text of the label
\* ("plain text" for none) are one and the same language, and serialization
\* emits that language.
C39_OneLanguage ==
    pureOp # "none" =>
        /\ languageOfClass(pureOut.className) = pureOut.dataLang
        /\ pureOut.label = (IF pureOut.dataLang = << >> THEN <<"plain text">>
                            ELSE pureOut.dataLang)
        /\ fencedCodeBlockLang(pureOut) = pureOut.dataLang

====
